---- MODULE Spec2Model ----
(***************************************************************************)
(* A model of petrpinkas/config-examples: the create-or-update installer   *)
(* (pkg/installer), the readiness verifier (pkg/verifier), the dot-path    *)
(* configuration mutator and the template processor (pkg/config), the      *)
(* cluster client singleton (pkg/kubernetes), and the scenario discovery   *)
(* and the scenario run of the tests (test/support).                       *)
(*                                                                         *)
(* Each component has its own specification over the shared variables:     *)
(*   Spec          the installer against a cluster                         *)
(*   SpecVerify    Verify's two polling phases (FairSpecVerify: with the   *)
(*                 fairness a finite deadline and a running goroutine give)*)
(*   SpecIsReady   IsReady applied to bounded snapshots                    *)
(*   SpecConfig    UpdateConfig applied to bounded documents               *)
(*   SpecTemplate  ProcessTemplate applied to bounded template files       *)
(*   SpecConf      LoadConfFile applied to bounded overlay files           *)
(*   SpecDiscover  DiscoverAllScenarios applied to bounded directory trees *)
(*   SpecScenario  one scenario variant run: setup, specs, cleanup         *)
(*   SpecClient    GetClient called by concurrent goroutines               *)
(*   SpecSplit     splitYAMLDocuments applied to bounded texts             *)
(***************************************************************************)
EXTENDS Integers, Sequences, FiniteSets, TLC

(***************************************************************************)
(* Bounds of the model.                                                    *)
(***************************************************************************)
MaxDocs == 2
MaxRuns == 2
MaxOther == 1
MaxPolls == 2
MaxConds == 2
MaxSegs == 3
MaxValLen == 2
MaxApply == 2
MaxTplRuns == 2
MaxConfLines == 3
MaxFiles == 2
MaxCallers == 3
MaxGetCalls == 2
MaxSplitLines == 3

VARIABLES
    \* ---- installer and cluster
    cluster,     \* the cluster: key -> [present, content, rv]
    rev,         \* the cluster's revision counter (source of resourceVersions)
    cluster0,    \* the cluster before the first InstallConfig call
    startCl,     \* the cluster when the current InstallConfig call began
    manifest,    \* the documents splitYAMLDocuments returned
    ipc,         \* InstallConfig's position: idle, lookup, mutate, done
    idx,         \* the loop index i (1-based document number)
    existing,    \* the result of the lookup of document idx
    iret,        \* what the call returned: none, ok, err
    run,         \* number of InstallConfig calls started
    calls,       \* every cluster call the installer issued, in order
    nOther,      \* writes by other actors so far
    faulted,     \* some cluster call failed for a reason of the transport/server
    \* ---- Verify and the resource it polls
    res,         \* the polled resource in the cluster: [present, obj]
    ctxDone,     \* the caller's context is done (deadline passed or cancelled)
    vpc,         \* Verify's position: idle, checked, poll1, wait1, poll2, wait2,
                 \* success, failed
    polls,       \* polling intervals elapsed
    lastGet,     \* the latest Get: [phase, outcome, obj, ret, done]
    p1Got,       \* a phase-1 cluster lookup returned the resource
    p1Obj,       \* what the phase-1 poll that ended phase 1 returned
    gets,        \* calls of Get
    lookups,     \* cluster lookups issued by Get
    \* ---- IsReady on its own
    snap,        \* the snapshot IsReady is called with
    rdyDone,     \* IsReady has returned
    rdyRes,      \* what it returned
    \* ---- UpdateConfig
    doc,         \* config.Data
    doc0,        \* config.Data before the call
    cfgPath,     \* the path segments the caller means
    cfgVal,      \* the value the caller means
    cfgIn,       \* the pathValue string passed to UpdateConfig
    cfgDone,     \* UpdateConfig has returned
    cfgErr,      \* it returned an error
    cfgN,        \* calls of UpdateConfig with this pathValue so far
    doc1,        \* config.Data after the first call
    \* ---- ProcessTemplate
    tplFile,     \* the template file
    tconfFile,   \* the conf file
    tctx,        \* the runtime context
    outFile,     \* the output file
    tplN,        \* calls of ProcessTemplate on these inputs so far
    tplRes,      \* what the latest call returned and computed
    tplRes1,     \* the same of the first call
    \* ---- LoadConfFile on its own
    confIn,      \* the conf file
    confDone,    \* LoadConfFile has returned
    confRes,     \* what it returned: [err, line, m]
    \* ---- DiscoverAllScenarios
    fsRoot,      \* the scenarios directory
    discDone,    \* DiscoverAllScenarios has returned
    discRes,     \* what it returned: [err, list]
    \* ---- one scenario variant run (setupScenario, testScenario)
    env,         \* the value of the DRY_RUN environment variable
    dryRun,      \* testCtx.dryRun
    spc,         \* the run's position: start, client, namespace, template,
                 \* load, install, register, specs, verify, cleanup, end
    specIdx,     \* the spec of the ordered container that runs next
    slog,        \* the steps performed so far: [op, ok]
    nsCreated,   \* CreateTestNamespace created a namespace
    nsLive,      \* that namespace exists in the cluster
    cleanupReg,  \* the DeferCleanup of setupScenario is registered
    spolls,      \* readiness polls of Verify so far
    sfailed,     \* a step of the run failed
    \* ---- GetClient (pkg/kubernetes)
    k8sClient,   \* the package variable: 0 is nil, g the client goroutine g built
    once,        \* the sync.Once: new, running, done
    built,       \* runs of the function passed to once.Do
    gpc,         \* each goroutine's position in GetClient: idle, cfg, new,
                 \* blocked, return
    gerr,        \* each goroutine's local err: is it non-nil
    gcalls,      \* each goroutine's calls of GetClient so far
    rets,        \* what the calls returned: [g, n, client, err]
    \* ---- splitYAMLDocuments on its own
    splitIn,     \* the content, as its lines
    splitDone,   \* splitYAMLDocuments has returned
    splitOut     \* the documents it returned

instVars == <<cluster, rev, cluster0, startCl, manifest, ipc, idx, existing,
              iret, run, calls, nOther, faulted>>

verVars == <<res, ctxDone, vpc, polls, lastGet, p1Got, p1Obj, gets, lookups>>
rdyVars == <<snap, rdyDone, rdyRes>>

cfgVars == <<doc, doc0, cfgPath, cfgVal, cfgIn, cfgDone, cfgErr, cfgN, doc1>>

tplVars == <<tplFile, tconfFile, tctx, outFile, tplN, tplRes, tplRes1>>
confVars == <<confIn, confDone, confRes>>
discVars == <<fsRoot, discDone, discRes>>
scnVars == <<env, dryRun, spc, specIdx, slog, nsCreated, nsLive, cleanupReg,
             spolls, sfailed>>
cliVars == <<k8sClient, once, built, gpc, gerr, gcalls, rets>>
splitVars == <<splitIn, splitDone, splitOut>>
fileVars == <<tplVars, confVars, discVars, scnVars, cliVars, splitVars>>

vars == <<instVars, verVars, rdyVars, cfgVars, fileVars>>
notInst == <<verVars, rdyVars, cfgVars, fileVars>>
notVer == <<instVars, rdyVars, cfgVars, fileVars>>
notRdy == <<instVars, verVars, cfgVars, fileVars>>
notCfg == <<instVars, verVars, rdyVars, fileVars>>
coreVars == <<instVars, verVars, rdyVars, cfgVars>>
notTpl == <<coreVars, confVars, discVars, scnVars, cliVars, splitVars>>
notConf == <<coreVars, tplVars, discVars, scnVars, cliVars, splitVars>>
notDisc == <<coreVars, tplVars, confVars, scnVars, cliVars, splitVars>>
notScn == <<coreVars, tplVars, confVars, discVars, cliVars, splitVars>>
notCli == <<coreVars, tplVars, confVars, discVars, scnVars, splitVars>>
notSplit == <<coreVars, tplVars, confVars, discVars, scnVars, cliVars>>

(***************************************************************************)
(* The cluster API (external collaborator), as InstallConfig calls it.     *)
(***************************************************************************)
Keys == {"k1", "k2"}
DocContents == {"c1", "c2"}
OtherContent == "c0"

AbsentObj == [present |-> FALSE, content |-> "none", rv |-> 0]
LiveObj(c, v) == [present |-> TRUE, content |-> c, rv |-> v]

\* cli.Get: the outcome of a lookup by namespace+name.
ClusterGet(cl, k, fault) ==
    IF fault THEN [outcome |-> "error", rv |-> 0]
    ELSE IF cl[k].present THEN [outcome |-> "ok", rv |-> cl[k].rv]
    ELSE [outcome |-> "notfound", rv |-> 0]

\* cli.Create succeeds iff no object of that identity exists (else AlreadyExists).
CreateAccepted(cl, k, fault) == ~fault /\ ~cl[k].present

\* cli.Update succeeds iff the object exists and the resourceVersion sent is
\* the stored one (else NotFound / Conflict / Invalid).
UpdateAccepted(cl, k, sentRv, fault) ==
    ~fault /\ cl[k].present /\ cl[k].rv = sentRv

Stored(cl, k, c, v) == [cl EXCEPT ![k] = LiveObj(c, v)]

(***************************************************************************)
(* InstallConfig.                                                          *)
(***************************************************************************)
\* A document of the manifest: a parseable object, a segment yaml.Unmarshal
\* rejects, or blank text.
ObjDocs == [kind : {"obj"}, key : Keys, content : DocContents]
BadDoc == [kind |-> "bad", key |-> "k1", content |-> "none"]
BlankDoc == [kind |-> "blank", key |-> "k1", content |-> "none"]

RECURSIVE SeqsUpTo(_, _)
SeqsUpTo(S, n) ==
    IF n = 0 THEN {<<>>}
    ELSE LET shorter == SeqsUpTo(S, n - 1)
         IN shorter \cup {Append(s, x) : s \in {t \in shorter : Len(t) = n - 1}, x \in S}

\* Keys and contents are interchangeable names, so only manifests whose first
\* object document is (k1, c1) are drawn; the others are renamings of these.
Canonical(m) ==
    LET objs == {j \in 1..Len(m) : m[j].kind = "obj"}
    IN objs # {} =>
          LET f == CHOOSE j \in objs : \A h \in objs : j <= h
          IN m[f].key = "k1" /\ m[f].content = "c1"

\* splitYAMLDocuments returns non-blank segments, or the whole content as one
\* document when there is none (which may then be blank).
Manifests ==
    {m \in SeqsUpTo(ObjDocs \cup {BadDoc}, MaxDocs) \ {<<>>} : Canonical(m)}
        \cup {<<BlankDoc>>}

\* The keys the manifest names: the objects of other keys play no part.
Named(m) == {m[j].key : j \in {h \in 1..Len(m) : m[h].kind = "obj"}}

\* Faulty variant: the found branch creates as well
DecideCreateAlways(outcome) ==
    CASE outcome = "notfound" -> "create"
      [] outcome = "ok" -> "create"
      [] OTHER -> "fail"

\* Faulty variant: any lookup error is taken for not-found
DecideErrCreates(outcome) ==
    CASE outcome = "ok" -> "update"
      [] OTHER -> "create"

\* The if / else-if / else after the lookup.
Decide(outcome) ==
    CASE outcome = "notfound" -> "create"
      [] outcome = "ok" -> "update"
      [] OTHER -> "fail"

\* Faulty variant: the looked-up resourceVersion is not copied onto the new object
UpdateRvUnset(ex) == 0

\* obj.SetResourceVersion(existing.GetResourceVersion())
UpdateRv(ex) == ex.rv

\* The head of the for loop from document i on: blank documents are skipped,
\* a document that does not unmarshal returns an error, the end returns nil.
RECURSIVE LoopHead(_, _)
LoopHead(docs, i) ==
    IF i > Len(docs) THEN [pc |-> "done", idx |-> i, ret |-> "ok"]
    ELSE IF docs[i].kind = "blank" THEN LoopHead(docs, i + 1)
    ELSE IF docs[i].kind = "bad" THEN [pc |-> "done", idx |-> i, ret |-> "err"]
    ELSE [pc |-> "lookup", idx |-> i, ret |-> "none"]

\* Faulty variant: a failed Create or Update does not return
AfterMutateContinue(docs, i, ok) == LoopHead(docs, i + 1)

\* Faulty variant: a failed Create or Update looks the document up again
AfterMutateRetry(docs, i, ok) ==
    IF ok THEN LoopHead(docs, i + 1)
    ELSE [pc |-> "lookup", idx |-> i, ret |-> "none"]

\* After Create or Update of document i: an error returns at once.
AfterMutate(docs, i, ok) ==
    IF ok THEN LoopHead(docs, i + 1)
    ELSE [pc |-> "done", idx |-> i, ret |-> "err"]

Call(op, k, sentRv, outcome) ==
    [run |-> run, doc |-> idx, op |-> op, key |-> k, rv |-> sentRv,
     outcome |-> outcome]

NoLookup == [outcome |-> "none", rv |-> 0]

InitInstall ==
    /\ manifest \in Manifests
    /\ cluster \in {cl \in [Keys -> {AbsentObj, LiveObj(OtherContent, 1)}] :
                       \A k \in Keys \ Named(manifest) : ~cl[k].present}
    /\ rev = 1
    /\ cluster0 = cluster
    /\ startCl = cluster
    /\ ipc = "idle"
    /\ idx = 0
    /\ existing = NoLookup
    /\ iret = "none"
    /\ run = 0
    /\ calls = <<>>
    /\ nOther = 0
    /\ faulted = FALSE

\* A call of InstallConfig up to its first cluster call.
InstallStart ==
    /\ ipc \in {"idle", "done"}
    /\ run < MaxRuns
    /\ LET h == LoopHead(manifest, 1)
       IN /\ ipc' = h.pc
          /\ idx' = h.idx
          /\ iret' = h.ret
    /\ run' = run + 1
    /\ startCl' = cluster
    /\ existing' = NoLookup
    /\ UNCHANGED <<cluster, rev, cluster0, manifest, calls, nOther, faulted,
                   notInst>>

\* cli.Get of document idx, and the branch on its error.
InstallLookup ==
    /\ ipc = "lookup"
    /\ \E fault \in BOOLEAN :
         LET k == manifest[idx].key
             got == ClusterGet(cluster, k, fault)
         IN /\ existing' = got
            /\ calls' = Append(calls, Call("get", k, got.rv, got.outcome))
            /\ faulted' = (faulted \/ fault)
            /\ IF Decide(got.outcome) = "fail"
               THEN ipc' = "done" /\ iret' = "err"
               ELSE ipc' = "mutate" /\ iret' = iret
    /\ UNCHANGED <<cluster, rev, cluster0, startCl, manifest, idx, run, nOther,
                   notInst>>

\* cli.Create of document idx.
InstallCreate ==
    /\ ipc = "mutate"
    /\ Decide(existing.outcome) = "create"
    /\ \E fault \in BOOLEAN :
         LET d == manifest[idx]
             ok == CreateAccepted(cluster, d.key, fault)
             nxt == AfterMutate(manifest, idx, ok)
         IN /\ cluster' = IF ok THEN Stored(cluster, d.key, d.content, rev + 1)
                          ELSE cluster
            /\ rev' = IF ok THEN rev + 1 ELSE rev
            /\ calls' = Append(calls, Call("create", d.key, 0,
                                           IF ok THEN "ok" ELSE "error"))
            /\ faulted' = (faulted \/ fault)
            /\ ipc' = nxt.pc
            /\ idx' = nxt.idx
            /\ iret' = nxt.ret
    /\ existing' = NoLookup
    /\ UNCHANGED <<cluster0, startCl, manifest, run, nOther,
                   notInst>>

\* cli.Update of document idx, carrying the looked-up resourceVersion.
InstallUpdate ==
    /\ ipc = "mutate"
    /\ Decide(existing.outcome) = "update"
    /\ \E fault \in BOOLEAN :
         LET d == manifest[idx]
             sent == UpdateRv(existing)
             ok == UpdateAccepted(cluster, d.key, sent, fault)
             nxt == AfterMutate(manifest, idx, ok)
         IN /\ cluster' = IF ok THEN Stored(cluster, d.key, d.content, rev + 1)
                          ELSE cluster
            /\ rev' = IF ok THEN rev + 1 ELSE rev
            /\ calls' = Append(calls, Call("update", d.key, sent,
                                           IF ok THEN "ok" ELSE "error"))
            /\ faulted' = (faulted \/ fault)
            /\ ipc' = nxt.pc
            /\ idx' = nxt.idx
            /\ iret' = nxt.ret
    /\ existing' = NoLookup
    /\ UNCHANGED <<cluster0, startCl, manifest, run, nOther,
                   notInst>>

\* Another actor writes the object InstallConfig is working on, between the
\* installer's lookup and its Create or Update: it creates or replaces the
\* object (a new resourceVersion), or deletes it.
OtherWriter ==
    /\ nOther < MaxOther
    /\ ipc = "mutate"
    /\ LET k == manifest[idx].key
       IN \/ /\ cluster' = Stored(cluster, k, OtherContent, rev + 1)
             /\ rev' = rev + 1
          \/ /\ cluster[k].present
             /\ cluster' = [cluster EXCEPT ![k] = AbsentObj]
             /\ rev' = rev + 1
    /\ nOther' = nOther + 1
    /\ UNCHANGED <<cluster0, startCl, manifest, ipc, idx, existing, iret, run,
                   calls, faulted,
                   notInst>>

(***************************************************************************)
(* Resource snapshots (unstructured.Unstructured) as IsReady reads them.   *)
(***************************************************************************)
\* A field of a condition entry: absent, a string, or a value of another type
\* (a boolean true is written "other"/"True": it is not the string "True").
Absent == [tag |-> "absent", s |-> ""]
Str(x) == [tag |-> "str", s |-> x]
NonStr(x) == [tag |-> "other", s |-> x]

TypeFields == {Absent, Str("Ready"), Str("Progressing"), NonStr("Ready")}
StatusFields == {Absent, Str("True"), Str("False"), NonStr("True")}

\* An entry of status.conditions: a mapping with type and status, or a value
\* that is not a mapping.
NotAMapping == [isMap |-> FALSE, type |-> Absent, status |-> Absent]
Cond(t, st) == [isMap |-> TRUE, type |-> t, status |-> st]
CondEntries == {NotAMapping} \cup {Cond(t, st) : t \in TypeFields, st \in StatusFields}

\* A snapshot: nil, or an object whose status is absent / a mapping / another
\* value, whose status.conditions is absent / a sequence / another value.
Snapshot(isNil, st, cs, es) ==
    [nil |-> isNil, status |-> st, conds |-> cs, entries |-> es]
NilSnap == Snapshot(TRUE, "absent", "absent", <<>>)
EmptyObj == Snapshot(FALSE, "absent", "absent", <<>>)
WithConds(es) == Snapshot(FALSE, "map", "seq", es)

Snapshots ==
    {NilSnap, EmptyObj,
     Snapshot(FALSE, "other", "absent", <<>>),
     Snapshot(FALSE, "map", "absent", <<>>),
     Snapshot(FALSE, "map", "other", <<>>)}
        \cup {WithConds(es) : es \in SeqsUpTo(CondEntries, MaxConds)}

(***************************************************************************)
(* pkg/verifier: Get, IsReady, Verify.                                     *)
(***************************************************************************)
\* unstructured.NestedSlice(obj.Object, "status", "conditions")
NestedSlice(obj) ==
    IF obj.status = "absent" THEN [found |-> FALSE, err |-> FALSE, val |-> <<>>]
    ELSE IF obj.status # "map" THEN [found |-> FALSE, err |-> TRUE, val |-> <<>>]
    ELSE IF obj.conds = "absent" THEN [found |-> FALSE, err |-> FALSE, val |-> <<>>]
    ELSE IF obj.conds # "seq" THEN [found |-> FALSE, err |-> TRUE, val |-> <<>>]
    ELSE [found |-> TRUE, err |-> FALSE, val |-> obj.entries]

\* Faulty variant: the first condition with status "True" decides, whatever its type
RECURSIVE ScanAnyType(_)
ScanAnyType(cs) ==
    IF cs = <<>> THEN FALSE
    ELSE LET c == Head(cs)
         IN IF ~c.isMap THEN ScanAnyType(Tail(cs))
            ELSE IF c.status.tag = "str" /\ c.status.s = "True" THEN TRUE
            ELSE ScanAnyType(Tail(cs))

\* The for loop of IsReady over the conditions.
RECURSIVE ScanConditions(_)
ScanConditions(cs) ==
    IF cs = <<>> THEN FALSE
    ELSE LET c == Head(cs)
         IN IF ~c.isMap THEN ScanConditions(Tail(cs))
            ELSE IF ~(c.type.tag = "str" /\ c.type.s = "Ready")
                 THEN ScanConditions(Tail(cs))
            ELSE c.status.tag = "str" /\ c.status.s = "True"

IsReady(obj) ==
    IF obj.nil THEN FALSE
    ELSE LET r == NestedSlice(obj)
         IN IF ~r.found \/ r.err THEN FALSE
            ELSE ScanConditions(r.val)

\* The states of the polled resource: absent, or present in one of the shapes
\* an operator leaves it in while it reconciles.
ObjProgressing == WithConds(<<Cond(Str("Progressing"), Str("True"))>>)
ObjNotReady == WithConds(<<Cond(Str("Ready"), Str("False"))>>)
ObjReady == WithConds(<<Cond(Str("Progressing"), Str("False")),
                        Cond(Str("Ready"), Str("True"))>>)
ResAbsent == [present |-> FALSE, obj |-> EmptyObj]
ResStates ==
    {ResAbsent} \cup
    {[present |-> TRUE, obj |-> o] :
        o \in {EmptyObj, ObjProgressing, ObjNotReady, ObjReady}}

\* cli.Get(ctx, key, obj): a done context and a transport fault both make the
\* request fail; obj is filled only on success.
ClusterLookup(r, fault, done) ==
    IF fault \/ done THEN [outcome |-> "error", obj |-> EmptyObj]
    ELSE IF r.present THEN [outcome |-> "ok", obj |-> r.obj]
    ELSE [outcome |-> "notfound", obj |-> EmptyObj]

\* Faulty variant: only not-found returns nil: an error returns the unfilled object
GetNilOnlyOnNotFound(lk) ==
    IF lk.outcome = "notfound" THEN NilSnap ELSE lk.obj

\* Get, after its lookup: nil on not-found and on any other error.
Get(lk) ==
    IF lk.outcome = "notfound" THEN NilSnap
    ELSE IF lk.outcome # "ok" THEN NilSnap
    ELSE lk.obj

\* Phase 1: g.Expect(obj).NotTo(BeNil()) and Should(Not(BeNil())).
Phase1Done(obj) == ~obj.nil

\* Faulty variant: phase 2 judges the snapshot phase 1 ended with
Phase2KeepsSnapshot(fresh, old) == old

\* Phase 2 judges the object its own Get returned on this tick.
Phase2Obj(fresh, old) == fresh

\* Phase 2: g.Expect(obj).NotTo(BeNil()), and IsReady(obj) Should(BeTrue()).
Phase2Done(obj) == ~obj.nil /\ IsReady(obj)

\* Faulty variant: a poll that does not match fails Verify
PollMissFails(phase) == "failed"

\* A poll that does not match (a failed g.Expect included) is retried by
\* Eventually after the polling interval.
PollMiss(phase) == IF phase = 1 THEN "wait1" ELSE "wait2"

\* Faulty variant: Eventually does not watch the context
CtxIgnored(done) == FALSE

\* .WithContext(ctx): Eventually fails once the context is done.
CtxFires(done) == done

(***************************************************************************)
(* pkg/config: UpdateConfig.  Strings are sequences of characters, so that *)
(* splitting and trimming are computed as the code computes them.          *)
(***************************************************************************)
IsSpace(c) == c = " "

RECURSIVE TrimLeft(_)
TrimLeft(str) ==
    IF str # <<>> /\ IsSpace(Head(str)) THEN TrimLeft(Tail(str)) ELSE str

RECURSIVE TrimRight(_)
TrimRight(str) ==
    IF str # <<>> /\ IsSpace(str[Len(str)])
    THEN TrimRight(SubSeq(str, 1, Len(str) - 1)) ELSE str

\* strings.TrimSpace
TrimSpace(str) == TrimRight(TrimLeft(str))

\* The index of the first sep in str, 0 when there is none.
IndexOf(str, sep) ==
    LET at == {n \in 1..Len(str) : str[n] = sep}
    IN IF at = {} THEN 0 ELSE CHOOSE n \in at : \A h \in at : n <= h

\* strings.Split(str, sep), sep one character: always at least one part.
RECURSIVE Split(_, _)
Split(str, sep) ==
    LET n == IndexOf(str, sep)
    IN IF n = 0 THEN <<str>>
       ELSE <<SubSeq(str, 1, n - 1)>> \o Split(SubSeq(str, n + 1, Len(str)), sep)

\* Faulty variant: strings.Split in place of strings.SplitN(.., 2)
SplitEvery(str, sep) == Split(str, sep)

\* strings.SplitN(str, sep, 2): split at the first sep only.
SplitN2(str, sep) ==
    LET n == IndexOf(str, sep)
    IN IF n = 0 THEN <<str>>
       ELSE <<SubSeq(str, 1, n - 1), SubSeq(str, n + 1, Len(str))>>

\* A value of the document tree: a string, a nested mapping, or a value of
\* another type (a sequence, a number).
EmptyMap == [k \in {} |-> 0]
StrVal(str) == [t |-> "str", s |-> str, m |-> EmptyMap]
MapVal(mp) == [t |-> "map", s |-> <<>>, m |-> mp]
ListVal == [t |-> "list", s |-> <<>>, m |-> EmptyMap]
Missing == [t |-> "missing", s |-> <<>>, m |-> EmptyMap]

\* Faulty variant: a string written over a string is appended to it
PutAppend(mp, key, v) ==
    [k \in DOMAIN mp \cup {key} |->
        IF k # key THEN mp[k]
        ELSE IF key \in DOMAIN mp /\ mp[key].t = "str" /\ v.t = "str"
             THEN [v EXCEPT !.s = mp[key].s \o v.s]
             ELSE v]

\* Faulty variant: the assignment leaves a map that holds the key alone
PutAlone(mp, key, v) == [k \in {key} |-> v]

\* m[key] = v
Put(mp, key, v) ==
    [k \in DOMAIN mp \cup {key} |-> IF k = key THEN v ELSE mp[k]]

\* Faulty variant: a non-mapping value on the way is an error, and is kept
RECURSIVE updateNestedMapStrict(_, _, _)
updateNestedMapStrict(mp, path, value) ==
    IF Len(path) = 0 THEN [err |-> TRUE, m |-> mp]
    ELSE LET key == Head(path)
         IN IF Len(path) = 1 THEN [err |-> FALSE, m |-> Put(mp, key, StrVal(value))]
            ELSE IF key \in DOMAIN mp /\ mp[key].t # "map"
            THEN [err |-> TRUE, m |-> mp]
            ELSE LET nextMap == IF key \in DOMAIN mp THEN mp[key].m ELSE EmptyMap
                     r == updateNestedMapStrict(nextMap, Tail(path), value)
                 IN [err |-> r.err, m |-> Put(mp, key, MapVal(r.m))]

\* updateNestedMap: the map as the call leaves it, and whether it returned
\* an error.
RECURSIVE updateNestedMap(_, _, _)
updateNestedMap(mp, path, value) ==
    IF Len(path) = 0 THEN [err |-> TRUE, m |-> mp]
    ELSE LET key == Head(path)
         IN IF Len(path) = 1 THEN [err |-> FALSE, m |-> Put(mp, key, StrVal(value))]
            ELSE LET nextMap == IF key \in DOMAIN mp /\ mp[key].t = "map"
                                THEN mp[key].m
                                ELSE EmptyMap
                     r == updateNestedMap(nextMap, Tail(path), value)
                 IN [err |-> r.err, m |-> Put(mp, key, MapVal(r.m))]

\* UpdateConfig(config, pathValue)
UpdateConfig(mp, pathValue) ==
    LET parts == SplitN2(pathValue, "=")
    IN IF Len(parts) # 2 THEN [err |-> TRUE, m |-> mp]
       ELSE LET path == TrimSpace(parts[1])
                value == TrimSpace(parts[2])
                pathParts == Split(path, ".")
            IN IF Len(pathParts) = 0 THEN [err |-> TRUE, m |-> mp]
               ELSE updateNestedMap(mp, pathParts, value)

\* Reading a document by descending path segments.
RECURSIVE ReadPath(_, _)
ReadPath(mp, path) ==
    IF path = <<>> \/ Head(path) \notin DOMAIN mp THEN Missing
    ELSE IF Len(path) = 1 THEN mp[Head(path)]
    ELSE IF mp[Head(path)].t = "map" THEN ReadPath(mp[Head(path)].m, Tail(path))
    ELSE Missing

\* The inputs drawn: identifier segments, values with spaces and "=" in them.
Segments == {<<"a">>, <<"b">>, <<"a", "b">>}
Paths == SeqsUpTo(Segments, MaxSegs) \ {<<>>}
Values == SeqsUpTo({"x", " ", "="}, MaxValLen)

RECURSIVE JoinDots(_)
JoinDots(segs) ==
    IF Len(segs) = 1 THEN Head(segs)
    ELSE Head(segs) \o <<".">> \o JoinDots(Tail(segs))

\* "path=value" as a caller writes it, and the malformed inputs: no "=", and
\* an empty path.
PathValue(segs, v) == JoinDots(segs) \o <<"=">> \o v
InputsFor(segs, v) == {PathValue(segs, v), JoinDots(segs), <<"=">> \o v}

LeafA == (<<"a">> :> StrVal(<<"l", "e", "a", "f">>))
InitDocs ==
    {EmptyMap,
     LeafA,
     (<<"a">> :> MapVal((<<"b">> :> StrVal(<<"x">>)) @@ (<<"c">> :> ListVal))),
     (<<"a">> :> ListVal) @@ (<<"b">> :> StrVal(<<"x">>))}

InitConfig ==
    /\ doc \in InitDocs
    /\ doc0 = doc
    /\ cfgPath \in Paths
    /\ cfgVal \in Values
    /\ cfgIn \in InputsFor(cfgPath, cfgVal)
    /\ cfgDone = FALSE
    /\ cfgErr = FALSE
    /\ cfgN = 0
    /\ doc1 = doc

IdleConfig ==
    /\ doc = EmptyMap
    /\ doc0 = EmptyMap
    /\ cfgPath = <<>>
    /\ cfgVal = <<>>
    /\ cfgIn = <<>>
    /\ cfgDone = FALSE
    /\ cfgErr = FALSE
    /\ cfgN = 0
    /\ doc1 = EmptyMap

\* UpdateConfig is called on the document.
UpdateConfigCall ==
    /\ ~cfgDone
    /\ LET r == UpdateConfig(doc, cfgIn)
       IN doc' = r.m /\ cfgErr' = r.err /\ doc1' = r.m
    /\ doc0' = doc
    /\ cfgDone' = TRUE
    /\ cfgN' = 1
    /\ UNCHANGED <<cfgPath, cfgVal, cfgIn, notCfg>>

\* UpdateConfig is called again with the same pathValue on the document the
\* previous call left.
UpdateConfigAgain ==
    /\ cfgDone
    /\ cfgN < MaxApply
    /\ LET r == UpdateConfig(doc, cfgIn)
       IN doc' = r.m /\ cfgErr' = r.err
    /\ cfgN' = cfgN + 1
    /\ UNCHANGED <<doc0, doc1, cfgPath, cfgVal, cfgIn, cfgDone, notCfg>>

(***************************************************************************)
(* Template processing (pkg/config): text.                                 *)
(*                                                                         *)
(* A string is a sequence of symbols: the punctuation characters one by    *)
(* one, and each run of other characters that the files use as a unit (an  *)
(* identifier, a name, the sentinel URL) as one symbol.  A file's content  *)
(* is the sequence of its lines, as strings.Split(content, "\n") gives it. *)
(***************************************************************************)
\* placeholder := "https://your-oidc-issuer-url"
Sentinel == "https://your-oidc-issuer-url"

\* The symbols \w does not match.
Punct == {" ", "=", "#", "{", "}", ":", "-", "'", ".", Sentinel}
IsWordSym(c) == c \notin Punct

\* A runtime context: nil, or a namespace and an instance name.
RuntimeContext(ns, inst) == [nil |-> FALSE, Namespace |-> ns, InstanceName |-> inst]
NilContext == [nil |-> TRUE, Namespace |-> <<>>, InstanceName |-> <<>>]

\* The length of the run of \w symbols of str that starts at i.
RECURSIVE WordRun(_, _)
WordRun(str, i) ==
    IF i <= Len(str) /\ IsWordSym(str[i]) THEN 1 + WordRun(str, i + 1) ELSE 0

\* The length of the match of \{\{(\w+)\}\} that starts at i, 0 when none.
MatchLen(str, i) ==
    IF i + 1 <= Len(str) /\ str[i] = "{" /\ str[i + 1] = "{"
    THEN LET n == WordRun(str, i + 2)
         IN IF /\ n > 0
               /\ i + n + 3 <= Len(str)
               /\ str[i + n + 2] = "}"
               /\ str[i + n + 3] = "}"
            THEN n + 4 ELSE 0
    ELSE 0

Braced(name) == <<"{", "{">> \o name \o <<"}", "}">>

\* Faulty variant: an unknown placeholder is dropped from the text
PlaceholderValueDropsUnknown(name, runtimeCtx) ==
    IF name = <<"NAMESPACE">> THEN runtimeCtx.Namespace
    ELSE IF name = <<"INSTANCE_NAME">> THEN runtimeCtx.InstanceName
    ELSE <<>>

\* The replacement function: switch placeholderName.
PlaceholderValue(name, runtimeCtx) ==
    IF name = <<"NAMESPACE">> THEN runtimeCtx.Namespace
    ELSE IF name = <<"INSTANCE_NAME">> THEN runtimeCtx.InstanceName
    ELSE Braced(name)

\* placeholderRegex.ReplaceAllStringFunc on one line, from position i on:
\* matches are taken leftmost first and do not overlap.
RECURSIVE ReplaceAllFrom(_, _, _)
ReplaceAllFrom(str, i, runtimeCtx) ==
    IF i > Len(str) THEN <<>>
    ELSE LET n == MatchLen(str, i)
         IN IF n = 0
            THEN <<str[i]>> \o ReplaceAllFrom(str, i + 1, runtimeCtx)
            ELSE PlaceholderValue(SubSeq(str, i + 2, i + n - 3), runtimeCtx)
                    \o ReplaceAllFrom(str, i + n, runtimeCtx)

ReplaceAllString(str, runtimeCtx) == ReplaceAllFrom(str, 1, runtimeCtx)

\* replaceRuntimePlaceholdersInString: no match spans a line break, so the
\* text is replaced line by line.
replaceRuntimePlaceholdersInString(content, runtimeCtx) ==
    IF runtimeCtx.nil THEN content
    ELSE [j \in 1..Len(content) |-> ReplaceAllString(content[j], runtimeCtx)]

\* strings.HasPrefix(line, "#")
HasPrefix(str, c) == str # <<>> /\ str[1] = c

\* Faulty variant: the entries read so far are returned with the error
ConfErrorPartial(i, config) == [err |-> TRUE, line |-> i, m |-> config]

\* return nil, fmt.Errorf("... at line %d", i+1): i here is that i+1.
ConfError(i, config) == [err |-> TRUE, line |-> i, m |-> EmptyMap]

\* LoadConfFile on the lines from index i on, config being the map so far:
\* [err, line, m], line being the i+1 of the error message.
RECURSIVE LoadConfLines(_, _, _)
LoadConfLines(lines, i, config) ==
    IF i > Len(lines) THEN [err |-> FALSE, line |-> 0, m |-> config]
    ELSE LET line == TrimSpace(lines[i])
         IN IF line = <<>> \/ HasPrefix(line, "#")
            THEN LoadConfLines(lines, i + 1, config)
            ELSE LET parts == SplitN2(line, "=")
                 IN IF Len(parts) # 2
                    THEN ConfError(i, config)
                    ELSE LET key == TrimSpace(parts[1])
                             value == TrimSpace(parts[2])
                         IN IF key = <<>>
                            THEN ConfError(i, config)
                            ELSE LoadConfLines(lines, i + 1, Put(config, key, value))

\* A file: missing, or holding lines.
NoFile == [exists |-> FALSE, lines |-> <<>>]
File(lines) == [exists |-> TRUE, lines |-> lines]

\* LoadConfFile(filePath): os.ReadFile, then the loop over the lines.
LoadConfFile(file) ==
    IF ~file.exists THEN [err |-> TRUE, line |-> 0, m |-> EmptyMap]
    ELSE LoadConfLines(file.lines, 1, EmptyMap)

\* range over a map: the keys in the order this run happens to visit them.
IterOrder(mp, ord) == SelectSeq(ord, LAMBDA k : k \in DOMAIN mp)

\* replaceRuntimePlaceholdersInMap over the keys still to visit.
RECURSIVE ReplaceInMapFrom(_, _, _, _)
ReplaceInMapFrom(values, keys, runtimeCtx, result) ==
    IF keys = <<>> THEN result
    ELSE ReplaceInMapFrom(values, Tail(keys), runtimeCtx,
             Put(result, Head(keys), ReplaceAllString(values[Head(keys)], runtimeCtx)))

\* Faulty variant: the overlay values are handed on as loaded
OverlayAsLoaded(values, runtimeCtx, ord) == values

replaceRuntimePlaceholdersInMap(values, runtimeCtx, ord) ==
    IF runtimeCtx.nil THEN values
    ELSE ReplaceInMapFrom(values, IterOrder(values, ord), runtimeCtx, EmptyMap)

(***************************************************************************)
(* Template processing: documents.                                         *)
(***************************************************************************)
\* strings.TrimSpace(docStr) == "" for a document of these lines.
AllBlank(lines) == \A j \in 1..Len(lines) : TrimSpace(lines[j]) = <<>>

Dashes == <<"-", "-", "-">>

\* trimmed == "---"
IsSeparator(line) == TrimSpace(line) = Dashes

\* The loop of splitYAMLDocuments from line i on.
RECURSIVE SplitDocsFrom(_, _, _, _)
SplitDocsFrom(lines, i, documents, currentDoc) ==
    IF i > Len(lines) THEN documents
    ELSE IF IsSeparator(lines[i])
    THEN IF Len(currentDoc) > 0
         THEN SplitDocsFrom(lines, i + 1,
                  IF AllBlank(currentDoc) THEN documents
                  ELSE Append(documents, currentDoc),
                  <<>>)
         ELSE SplitDocsFrom(lines, i + 1, documents, currentDoc)
    ELSE LET cur == Append(currentDoc, lines[i])
         IN IF i = Len(lines)
            THEN IF AllBlank(cur) THEN documents ELSE Append(documents, cur)
            ELSE SplitDocsFrom(lines, i + 1, documents, cur)

\* splitYAMLDocuments(content): each document as its lines.
splitYAMLDocuments(content) ==
    LET documents == SplitDocsFrom(content, 1, <<>>, <<>>)
    IN IF Len(documents) = 0 THEN <<content>> ELSE documents

\* The values yaml.v3 decodes into interface{}: a string, a mapping with
\* string keys (map[string]interface{}), a mapping with a key that is not a
\* string (map[interface{}]interface{}), a sequence, a scalar that is not a
\* string, and null.
YStr(str) == [t |-> "str", s |-> str, m |-> EmptyMap, l |-> <<>>]
YMap(mp) == [t |-> "map", s |-> <<>>, m |-> mp, l |-> <<>>]
YGMap(mp) == [t |-> "gmap", s |-> <<>>, m |-> mp, l |-> <<>>]
YSeq(items) == [t |-> "seq", s |-> <<>>, m |-> EmptyMap, l |-> items]
YOther(str) == [t |-> "other", s |-> str, m |-> EmptyMap, l |-> <<>>]
YNull == [t |-> "null", s |-> <<>>, m |-> EmptyMap, l |-> <<>>]

\* Plain scalars that YAML resolves to an integer, a boolean, or null.
IntWords == {"80"}
OtherWords == IntWords \cup {"true"}
NullWords == {"null", "~"}

ParseOk(v) == [err |-> FALSE, v |-> v]
ParseErr == [err |-> TRUE, v |-> YNull]

Indent(line) == Len(line) - Len(TrimLeft(line))

\* The lines that carry content: not blank, not a comment.
ContentLines(lines) ==
    SelectSeq(lines, LAMBDA ln : TrimSpace(ln) # <<>> /\ ~HasPrefix(TrimLeft(ln), "#"))

\* "- item"
IsItem(line) ==
    LET body == TrimSpace(line)
    IN HasPrefix(body, "-") /\ (Len(body) = 1 \/ body[2] = " ")

\* "key:" or "key: value", the key one name.
IsField(line) ==
    LET body == TrimSpace(line)
    IN /\ Len(body) >= 2
       /\ IsWordSym(body[1])
       /\ body[2] = ":"
       /\ (Len(body) = 2 \/ body[3] = " ")

FieldKey(line) == TrimSpace(line)[1]
FieldValue(line) ==
    LET body == TrimSpace(line) IN TrimSpace(SubSeq(body, 3, Len(body)))

\* A scalar as YAML resolves it.  A plain scalar that opens a flow mapping
\* ("{{NAME}}" is a mapping whose key is a mapping) does not decode.
Scalar(text) ==
    IF Len(text) >= 2 /\ text[1] = "'" /\ text[Len(text)] = "'"
    THEN ParseOk(YStr(SubSeq(text, 2, Len(text) - 1)))
    ELSE IF text[1] \in {"{", "}", "'"} THEN ParseErr
    ELSE IF Len(text) = 1 /\ text[1] \in NullWords THEN ParseOk(YNull)
    ELSE IF Len(text) = 1 /\ text[1] \in OtherWords THEN ParseOk(YOther(text))
    ELSE ParseOk(YStr(text))

\* The last line of the group that starts at line j of a block indented by
\* ind: the lines after j indented deeper belong to it.
RECURSIVE GroupEnd(_, _, _)
GroupEnd(lines, ind, j) ==
    IF j < Len(lines) /\ Indent(lines[j + 1]) > ind
    THEN GroupEnd(lines, ind, j + 1) ELSE j

\* "- x" with the dash blanked: the item's first line at the item's indent.
Undash(line) ==
    LET n == Indent(line) IN [line EXCEPT ![n + 1] = " "]

\* Block-style YAML, as much of it as the templates use: nested mappings,
\* sequences of mappings or scalars, single-quoted and plain scalars.
\* The decoded nodes so far with one more, or the failure when the node or
\* what came before it did not decode.
WithField(acc, key, node) ==
    IF node.err THEN ParseErr ELSE ParseOk(Put(acc.v, key, node.v))
WithItem(acc, node) ==
    IF node.err THEN ParseErr ELSE ParseOk(Append(acc.v, node.v))

RECURSIVE ParseBlock(_)
RECURSIVE ParseMapFrom(_, _, _, _)
RECURSIVE ParseSeqFrom(_, _, _, _)
ParseBlock(lines) ==
    LET ind == Indent(lines[1])
    IN IF \E j \in 1..Len(lines) : Indent(lines[j]) < ind THEN ParseErr
       ELSE IF IsItem(lines[1]) THEN ParseSeqFrom(lines, ind, 1, ParseOk(<<>>))
       ELSE ParseMapFrom(lines, ind, 1, ParseOk(EmptyMap))

ParseMapFrom(lines, ind, j, acc) ==
    IF acc.err THEN ParseErr
    ELSE IF j > Len(lines)
    THEN IF \E k \in DOMAIN acc.v : k \in OtherWords \cup NullWords
         THEN ParseOk(YGMap(acc.v)) ELSE ParseOk(YMap(acc.v))
    ELSE LET head == lines[j]
             e == GroupEnd(lines, ind, j)
             children == SubSeq(lines, j + 1, e)
         IN IF IsItem(head) \/ ~IsField(head) \/ FieldKey(head) \in DOMAIN acc.v
            THEN ParseErr
            ELSE LET value == FieldValue(head)
                     node == IF value # <<>>
                             THEN IF children # <<>> THEN ParseErr ELSE Scalar(value)
                             ELSE IF children = <<>> THEN ParseOk(YNull)
                             ELSE ParseBlock(children)
                 IN ParseMapFrom(lines, ind, e + 1, WithField(acc, FieldKey(head), node))

ParseSeqFrom(lines, ind, j, acc) ==
    IF acc.err THEN ParseErr
    ELSE IF j > Len(lines) THEN ParseOk(YSeq(acc.v))
    ELSE LET head == lines[j]
             e == GroupEnd(lines, ind, j)
             children == SubSeq(lines, j + 1, e)
             first == Undash(head)
         IN IF ~IsItem(head) THEN ParseErr
            ELSE LET node == IF TrimSpace(first) = <<>>
                             THEN IF children = <<>> THEN ParseOk(YNull)
                                  ELSE ParseBlock(children)
                             ELSE IF children = <<>> /\ ~IsField(first) /\ ~IsItem(first)
                             THEN Scalar(TrimSpace(first))
                             ELSE ParseBlock(<<first>> \o children)
                 IN ParseSeqFrom(lines, ind, e + 1, WithItem(acc, node))

\* yaml.Unmarshal([]byte(docStr), &templateConfig), templateConfig a
\* map[string]interface{}: the document must be a mapping; a document without
\* content leaves the map nil, which marshals as an empty mapping.
AsMapping(r) ==
    IF r.err \/ r.v.t \notin {"map", "gmap"} THEN ParseErr ELSE ParseOk(YMap(r.v.m))
DecodeLines(lines) ==
    IF lines = <<>> THEN ParseOk(YMap(EmptyMap)) ELSE AsMapping(ParseBlock(lines))
Unmarshal(docLines) == DecodeLines(ContentLines(docLines))

\* replaceTemplatePlaceholders(data, placeholder, confValues): the mapping
\* case visits the keys in the order of this run's range; a value of any
\* other type than map[string]interface{} and []interface{} is left alone.
RECURSIVE replaceTemplatePlaceholders(_, _, _, _)
RECURSIVE ReplaceInKeys(_, _, _, _, _)
replaceTemplatePlaceholders(data, placeholder, confValues, ord) ==
    IF data.t = "map"
    THEN YMap(ReplaceInKeys(data.m, IterOrder(data.m, ord), placeholder, confValues, ord))
    ELSE IF data.t = "seq"
    THEN YSeq([j \in 1..Len(data.l) |->
                 replaceTemplatePlaceholders(data.l[j], placeholder, confValues, ord)])
    ELSE data

ReplaceInKeys(v, keys, placeholder, confValues, ord) ==
    IF keys = <<>> THEN v
    ELSE LET key == Head(keys)
             val == v[key]
             after ==
                 IF val.t = "str" /\ val.s = placeholder
                 THEN IF <<key>> \in DOMAIN confValues
                      THEN Put(v, key, YStr(confValues[<<key>>]))
                      ELSE v
                 ELSE Put(v, key,
                          replaceTemplatePlaceholders(val, placeholder, confValues, ord))
         IN ReplaceInKeys(after, Tail(keys), placeholder, confValues, ord)

\* ---- yaml.Marshal
Spaces(n) == [j \in 1..n |-> " "]

\* The field names of the templates, in the order yaml.Marshal sorts them.
FieldNameOrder ==
    <<"80", "Issuer", "items", "kind", "metadata", "name", "namespace", "spec">>

\* Faulty variant: the keys are emitted in the order the range visited them
EmitOrderAsVisited(mp, ord) == IterOrder(mp, ord)

\* yaml.Marshal emits the keys of a mapping sorted.
EmitOrder(mp, ord) == IterOrder(mp, FieldNameOrder)

\* A string is quoted when plain it would read as something else.
NeedsQuote(str) ==
    \/ str = <<>>
    \/ str[1] \in {"{", "}", "'", "#", "-", " ", ":"}
    \/ str[Len(str)] \in {" ", ":"}
    \/ Len(str) = 1 /\ str[1] \in OtherWords \cup NullWords
    \/ \E j \in 1..Len(str) : str[j] = "#"
    \/ \E j \in 1..(Len(str) - 1) : str[j] = ":" /\ str[j + 1] = " "

ScalarText(v) ==
    IF v.t = "null" THEN <<"null">>
    ELSE IF v.t = "other" THEN v.s
    ELSE IF NeedsQuote(v.s) THEN <<"'">> \o v.s \o <<"'">>
    ELSE v.s

IsScalar(v) == v.t \in {"str", "other", "null"}

\* The first line of a sequence item carries the dash in its indentation.
Dash(line, ind) == [line EXCEPT ![ind + 1] = "-"]

RECURSIVE EmitNode(_, _, _)
RECURSIVE EmitKeys(_, _, _, _)
RECURSIVE EmitItems(_, _, _, _)
\* The lines of a mapping or a sequence, indented by ind.
EmitNode(v, ind, ord) ==
    IF v.t \in {"map", "gmap"} THEN EmitKeys(v.m, EmitOrder(v.m, ord), ind, ord)
    ELSE EmitItems(v.l, 1, ind, ord)

EmitKeys(mp, keys, ind, ord) ==
    IF keys = <<>> THEN <<>>
    ELSE LET key == Head(keys)
             val == mp[key]
             lines ==
                 IF IsScalar(val)
                 THEN <<Spaces(ind) \o <<key, ":", " ">> \o ScalarText(val)>>
                 ELSE IF val.t \in {"map", "gmap"} /\ DOMAIN val.m = {}
                 THEN <<Spaces(ind) \o <<key, ":", " ", "{", "}">>>>
                 ELSE IF val.t = "seq" /\ val.l = <<>>
                 THEN <<Spaces(ind) \o <<key, ":", " ", "[", "]">>>>
                 ELSE <<Spaces(ind) \o <<key, ":">>>> \o EmitNode(val, ind + 4, ord)
         IN lines \o EmitKeys(mp, Tail(keys), ind, ord)

EmitItems(items, j, ind, ord) ==
    IF j > Len(items) THEN <<>>
    ELSE LET item == items[j]
             lines ==
                 IF IsScalar(item)
                 THEN <<Spaces(ind) \o <<"-", " ">> \o ScalarText(item)>>
                 ELSE LET ls == EmitNode(item, ind + 2, ord)
                      IN <<Dash(ls[1], ind)>> \o Tail(ls)
         IN lines \o EmitItems(items, j + 1, ind, ord)

\* yaml.Marshal(templateConfig): the text ends with a line break, so its
\* last line is empty.
Marshal(v, ord) ==
    IF DOMAIN v.m = {} THEN <<<<"{", "}">>, <<>>>>
    ELSE EmitNode(v, 0, ord) \o <<<<>>>>

\* ---- bytes.Join(processedDocs, []byte("---\n"))
\* Two texts written one after the other: the last line of the first runs
\* on into the first line of the second.
TextConcat(a, b) ==
    SubSeq(a, 1, Len(a) - 1) \o <<a[Len(a)] \o b[1]>> \o Tail(b)

SeparatorText == <<Dashes, <<>>>>
EmptyText == <<<<>>>>

\* Faulty variant: the documents are written one after the other
RECURSIVE JoinPlain(_, _)
JoinPlain(docs, sep) ==
    IF docs = <<>> THEN EmptyText
    ELSE IF Len(docs) = 1 THEN docs[1]
    ELSE TextConcat(docs[1], JoinPlain(Tail(docs), sep))

RECURSIVE Join(_, _)
Join(docs, sep) ==
    IF docs = <<>> THEN EmptyText
    ELSE IF Len(docs) = 1 THEN docs[1]
    ELSE TextConcat(TextConcat(docs[1], sep), Join(Tail(docs), sep))

\* ---- ProcessTemplate
\* The loop over the documents from index i on: [err, errDoc, parsed, trees,
\* docs], errDoc being the i+1 of the error message, parsed the documents as
\* decoded, trees the documents after the structural pass, docs their YAML.
WithDocument(acc, parsed, done, ord) ==
    [acc EXCEPT !.parsed = Append(@, parsed),
                !.trees = Append(@, done),
                !.docs = Append(@, Marshal(done, ord))]
RECURSIVE ProcessDocsFrom(_, _, _, _, _)
RECURSIVE ProcessDoc(_, _, _, _, _, _)
ProcessDocsFrom(documents, i, confValues, ord, acc) ==
    IF i > Len(documents) THEN acc
    ELSE IF AllBlank(documents[i])
    THEN ProcessDocsFrom(documents, i + 1, confValues, ord, acc)
    ELSE ProcessDoc(documents, i, confValues, ord, acc, Unmarshal(documents[i]))

\* The body of the loop once the document is decoded.
ProcessDoc(documents, i, confValues, ord, acc, templateConfig) ==
    IF templateConfig.err
    THEN [acc EXCEPT !.err = TRUE, !.errDoc = i]
    ELSE ProcessDocsFrom(documents, i + 1, confValues, ord,
             WithDocument(acc, templateConfig.v,
                 replaceTemplatePlaceholders(templateConfig.v, <<Sentinel>>,
                                             confValues, ord),
                 ord))

NoDocs == [err |-> FALSE, errDoc |-> 0, parsed |-> <<>>, trees |-> <<>>, docs |-> <<>>]

\* The result of a call: what it returned, what it computed, and the output
\* file as the call left it.
Failed(stage, at, out) ==
    [err |-> stage, errDoc |-> at, text |-> EmptyText, parsed |-> <<>>,
     trees |-> <<>>, docs |-> <<>>, outFile |-> out]

\* ProcessTemplate(templatePath, confPath, outputPath, runtimeCtx), the range
\* loops of this run visiting overlay keys in the order ordConf and field
\* names in the order ord.
\* Faulty variant: on a parse error the documents processed so far are written
WriteOutputPartial(r, templateDataStr, out) ==
    [err |-> IF r.err THEN "parse" ELSE "nil", errDoc |-> r.errDoc,
     text |-> templateDataStr, parsed |-> r.parsed, trees |-> r.trees,
     docs |-> r.docs, outFile |-> File(Join(r.docs, SeparatorText))]

\* The end of ProcessTemplate: the error of the loop, or the documents joined
\* and written.
WriteOutput(r, templateDataStr, out) ==
    IF r.err
    THEN [Failed("parse", r.errDoc, out) EXCEPT !.text = templateDataStr]
    ELSE [err |-> "nil", errDoc |-> 0, text |-> templateDataStr,
          parsed |-> r.parsed, trees |-> r.trees, docs |-> r.docs,
          outFile |-> File(Join(r.docs, SeparatorText))]

\* ProcessTemplate from the template text on, the overlay loaded.
ProcessText(templateDataStr, confValues, out, ord) ==
    WriteOutput(ProcessDocsFrom(splitYAMLDocuments(templateDataStr), 1, confValues,
                                ord, NoDocs),
                templateDataStr, out)

ProcessLoaded(loaded, templateFile, out, runtimeCtx, ordConf, ord) ==
    IF loaded.err THEN Failed("conf", loaded.line, out)
    ELSE IF ~templateFile.exists THEN Failed("template", 0, out)
    ELSE ProcessText(replaceRuntimePlaceholdersInString(templateFile.lines, runtimeCtx),
                     replaceRuntimePlaceholdersInMap(loaded.m, runtimeCtx, ordConf),
                     out, ord)

ProcessTemplate(templateFile, confFile, out, runtimeCtx, ordConf, ord) ==
    ProcessLoaded(LoadConfFile(confFile), templateFile, out, runtimeCtx, ordConf, ord)

\* ---- the inputs drawn
Ph(name) == Braced(<<name>>)
Quoted(str) == <<"'">> \o str \o <<"'">>
Fld(ind, key, value) ==
    Spaces(ind) \o <<key, ":">> \o (IF value = <<>> THEN <<>> ELSE <<" ">> \o value)
Itm(ind, key, value) == Spaces(ind) \o <<"-", " ", key, ":", " ">> \o value

\* metadata with both runtime placeholders, unquoted as the templates have them
BodyMeta ==
    <<Fld(0, "metadata", <<>>),
      Fld(2, "namespace", Ph("NAMESPACE")),
      Fld(2, "name", Ph("INSTANCE_NAME"))>>
\* the sentinel in a nested mapping, in a mapping inside a sequence, and as
\* a sequence item; a field that is not the sentinel
BodySpec ==
    <<Fld(0, "spec", <<>>),
      Fld(2, "Issuer", Quoted(<<Sentinel>>)),
      Fld(2, "items", <<>>),
      Itm(4, "Issuer", <<Sentinel>>),
      Fld(6, "kind", Quoted(<<Sentinel>>)),
      Spaces(4) \o <<"-", " ", Sentinel>>,
      Fld(2, "name", <<"x">>)>>
\* a mapping with an integer key next to a sentinel field
BodyPorts ==
    <<Fld(0, "spec", <<>>),
      Fld(2, "80", <<"x">>),
      Fld(2, "Issuer", Quoted(<<Sentinel>>))>>
\* quoted scalars with tokens the pattern matches, does not match, and does
\* not recognize
BodyTokens ==
    <<Fld(0, "kind", Quoted(Ph("FOO") \o Ph("NAMESPACE") \o Ph("INSTANCE_NAME"))),
      Fld(0, "name", Quoted(<<"{">> \o Ph("NAMESPACE") \o <<"}">>)),
      Fld(0, "namespace", Quoted(<<"{", "{", "NAMESPACE", "}", " ", "{", "{", "}", "}">>)),
      Fld(0, "items", Quoted(<<"{", "{", "NAMESPACE", "FOO", "}", "}", "NAMESPACE">>))>>
\* an unknown token where YAML reads it as a flow mapping: malformed
BodyBare == <<Fld(0, "kind", Ph("FOO"))>>
BodyBlank == <<<<" ">>>>
BodyComment == <<<<"#", " ", "c">>>>

Bodies == {BodyMeta, BodySpec, BodyPorts, BodyTokens, BodyBare, BodyBlank, BodyComment}
PairBodies == {BodyMeta, BodySpec, BodyTokens, BodyBare, BodyBlank}
Separators == {Dashes, <<" ">> \o Dashes \o <<" ">>}

\* A text that ends with a line break has an empty last line.
One(body) == body \o EmptyText
Two(a, sep, b) == a \o <<sep>> \o b
TemplateTexts ==
    {One(b) : b \in Bodies}
        \cup {Two(a, s, One(b)) : a \in PairBodies, s \in Separators, b \in PairBodies}
        \cup {Two(<<Dashes>> \o BodyMeta, Dashes, BodySpec)}
TemplateFiles == {File(t) : t \in TemplateTexts} \cup {NoFile}

ConfTexts ==
    {EmptyText,
     <<<<"#", " ", "c">>, <<>>, <<"Issuer", "=", "kc", ".">> \o Ph("NAMESPACE"), <<>>>>,
     <<<<"Issuer", " ", "=", " ", "v">>, <<"kind", "=">> \o Ph("FOO") \o Ph("INSTANCE_NAME")>>,
     <<<<"Issuer", "=", "v">>, <<"Issuer">>>>}
ConfFiles == {File(t) : t \in ConfTexts} \cup {NoFile}

Contexts ==
    {NilContext,
     RuntimeContext(<<"ns", "-", "1">>, <<"inst">>),
     RuntimeContext(<<"inst">>, <<"ns", "-", "1">>)}
OutFiles == {NoFile, File(<<<<"old">>, <<>>>>)}

\* The orders a range over a map is drawn from: the rotations of an order of
\* the keys.
Rotate(seq, k) == SubSeq(seq, k + 1, Len(seq)) \o SubSeq(seq, 1, k)
Rotations(seq) == IF seq = <<>> THEN {<<>>} ELSE {Rotate(seq, k) : k \in 0..(Len(seq) - 1)}
RECURSIVE SeqOf(_)
SeqOf(S) ==
    IF S = {} THEN <<>>
    ELSE LET x == CHOOSE y \in S : TRUE IN <<x>> \o SeqOf(S \ {x})
ConfKeys(confFile) ==
    IF confFile.exists THEN DOMAIN LoadConfFile(confFile).m ELSE {}

NoResult == Failed("none", 0, NoFile)

InitTemplate ==
    /\ tplFile \in TemplateFiles
    /\ tconfFile \in ConfFiles
    /\ tctx \in Contexts
    /\ outFile \in OutFiles
    /\ tplN = 0
    /\ tplRes = NoResult
    /\ tplRes1 = NoResult

IdleTemplate ==
    /\ tplFile = NoFile
    /\ tconfFile = NoFile
    /\ tctx = NilContext
    /\ outFile = NoFile
    /\ tplN = 0
    /\ tplRes = NoResult
    /\ tplRes1 = NoResult

\* The conf lines drawn: blank, comment, well-formed with and without blanks
\* around key and value, with an empty value, with "=" in the value, a
\* repeated key, and the malformed ones.
ConfLines ==
    {<<>>,
     <<" ">>,
     <<"#", "c">>,
     <<" ", "#", "k", "=", "v">>,
     <<"k", "=", "v">>,
     <<" ", "k", " ", "=", " ", "w", " ">>,
     <<"j", "=">>,
     <<"j", "=", "v", "=", "w">>,
     <<"k">>,
     <<"=", "v">>,
     <<" ", "=">>}

InitConf ==
    /\ confIn \in {File(t) : t \in SeqsUpTo(ConfLines, MaxConfLines) \ {<<>>}} \cup {NoFile}
    /\ confDone = FALSE
    /\ confRes = [err |-> FALSE, line |-> 0, m |-> EmptyMap]

IdleConf ==
    /\ confIn = NoFile
    /\ confDone = FALSE
    /\ confRes = [err |-> FALSE, line |-> 0, m |-> EmptyMap]

\* LoadConfFile is called on the file.
LoadConfCall ==
    /\ ~confDone
    /\ confRes' = LoadConfFile(confIn)
    /\ confDone' = TRUE
    /\ UNCHANGED <<confIn, notConf>>

(***************************************************************************)
(* Scenario discovery (test/support/scenarios.go).                         *)
(*                                                                         *)
(* A directory entry is a file or a directory; a directory can be listed   *)
(* or not (os.ReadDir fails), and maps the names in it to their entries.   *)
(* A name is a string.                                                     *)
(***************************************************************************)
FileEntry == [kind |-> "file", readable |-> TRUE, entries |-> EmptyMap]
Dir(readable, entries) == [kind |-> "dir", readable |-> readable, entries |-> entries]
DirEntry(entries) == Dir(TRUE, entries)
Unreadable(entries) == Dir(FALSE, entries)

\* strings.HasPrefix, HasSuffix, TrimPrefix, TrimSuffix on whole strings
HasPrefixStr(str, pre) == Len(str) >= Len(pre) /\ SubSeq(str, 1, Len(pre)) = pre
HasSuffix(str, suf) ==
    Len(str) >= Len(suf) /\ SubSeq(str, Len(str) - Len(suf) + 1, Len(str)) = suf
TrimPrefix(str, pre) ==
    IF HasPrefixStr(str, pre) THEN SubSeq(str, Len(pre) + 1, Len(str)) ELSE str
TrimSuffix(str, suf) ==
    IF HasSuffix(str, suf) THEN SubSeq(str, 1, Len(str) - Len(suf)) ELSE str

\* os.ReadDir(dir): an error, or the names in the directory in its order.
ReadDir(dir) ==
    IF dir.kind = "dir" /\ dir.readable
    THEN [err |-> FALSE, names |-> SeqOf(DOMAIN dir.entries)]
    ELSE [err |-> TRUE, names |-> <<>>]

\* fmt.Sprintf("%s-%s-template.yaml", prefix, scenarioName)
TemplatePattern(prefix, scenarioName) ==
    prefix \o <<"-">> \o scenarioName \o <<"-", "template", ".", "yaml">>
\* fmt.Sprintf("%s-%s-", prefix, scenarioName)
BasePattern(prefix, scenarioName) == prefix \o <<"-">> \o scenarioName \o <<"-">>
ConfSuffix == <<".", "conf">>

\* Faulty variant: every scenario directory counts as having a template
StatAlwaysOk(dir, name) == TRUE

\* os.Stat(filepath.Join(dir, name)) returns no error.
StatOk(dir, name) == name \in DOMAIN dir.entries

\* DiscoverScenarios(folderPath, prefix) over the entries from index i on.
RECURSIVE ScenariosFrom(_, _, _, _)
ScenariosFrom(folder, prefix, names, scenarios) ==
    IF names = <<>> THEN scenarios
    ELSE LET scenarioName == Head(names)
             entry == folder.entries[scenarioName]
         IN ScenariosFrom(folder, prefix, Tail(names),
                IF /\ entry.kind = "dir"
                   /\ StatOk(entry, TemplatePattern(prefix, scenarioName))
                THEN Append(scenarios, scenarioName) ELSE scenarios)

DiscoverScenarios(folder, prefix) ==
    LET entries == ReadDir(folder)
    IN IF entries.err THEN [err |-> TRUE, list |-> <<>>]
       ELSE [err |-> FALSE, list |-> ScenariosFrom(folder, prefix, entries.names, <<>>)]

\* DiscoverVariants(scenarioPath, prefix, scenarioName) over the entries.
RECURSIVE VariantsFrom(_, _, _, _)
VariantsFrom(dir, basePattern, names, variants) ==
    IF names = <<>> THEN variants
    ELSE LET fileName == Head(names)
             variant == TrimSuffix(TrimPrefix(fileName, basePattern), ConfSuffix)
         IN VariantsFrom(dir, basePattern, Tail(names),
                IF /\ dir.entries[fileName].kind # "dir"
                   /\ HasPrefixStr(fileName, basePattern)
                   /\ HasSuffix(fileName, ConfSuffix)
                   /\ variant # <<>>
                THEN Append(variants, variant) ELSE variants)

DiscoverVariants(dir, prefix, scenarioName) ==
    LET entries == ReadDir(dir)
    IN IF entries.err THEN [err |-> TRUE, list |-> <<>>]
       ELSE [err |-> FALSE,
             list |-> VariantsFrom(dir, BasePattern(prefix, scenarioName),
                                   entries.names, <<>>)]

ScenarioVariant(folderName, scenarioName, variantName) ==
    [FolderName |-> folderName, ScenarioName |-> scenarioName,
     VariantName |-> variantName]

\* The loop over the scenarios of one folder.
RECURSIVE VariantsOfScenarios(_, _, _, _)
VariantsOfScenarios(folder, folderName, scenarios, acc) ==
    IF scenarios = <<>> THEN acc
    ELSE LET scenarioName == Head(scenarios)
             variants == DiscoverVariants(folder.entries[scenarioName], folderName,
                                          scenarioName)
         IN VariantsOfScenarios(folder, folderName, Tail(scenarios),
                IF variants.err \/ Len(variants.list) = 0 THEN acc
                ELSE acc \o [j \in 1..Len(variants.list) |->
                                ScenarioVariant(folderName, scenarioName, variants.list[j])])

\* The loop over the entries of the scenarios directory.
RECURSIVE FoldersFrom(_, _, _)
FoldersFrom(root, names, acc) ==
    IF names = <<>> THEN acc
    ELSE LET folderName == Head(names)
             folder == root.entries[folderName]
             scenarios == DiscoverScenarios(folder, folderName)
         IN FoldersFrom(root, Tail(names),
                IF folder.kind # "dir" \/ scenarios.err THEN acc
                ELSE VariantsOfScenarios(folder, folderName, scenarios.list, acc))

\* DiscoverAllScenarios(scenariosDir)
DiscoverAllScenarios(root) ==
    LET entries == ReadDir(root)
    IN IF entries.err THEN [err |-> TRUE, list |-> <<>>]
       ELSE [err |-> FALSE, list |-> FoldersFrom(root, entries.names, <<>>)]

\* ---- the directory trees drawn
Subsets(S, n) == {T \in SUBSET S : Cardinality(T) <= n}
EntriesOf(names, entry) == [n \in names |-> entry]
ConfName(folderName, scenarioName, variant) ==
    BasePattern(folderName, scenarioName) \o variant \o ConfSuffix

\* What a scenario directory of folder f, scenario s may hold besides the
\* template: overlays with a plain and a dashed variant name, an overlay
\* with an empty variant name, an overlay of another folder, another scenario's
\* overlay, a file that is not an overlay.
FileNames(f, sc) ==
    {ConfName(f, sc, <<"v">>),
     ConfName(f, sc, <<"w", "-", "x">>),
     ConfName(f, sc, <<>>),
     ConfName(<<"g">>, sc, <<"v">>),
     ConfName(f, sc \o <<"-", "t">>, <<"v">>),
     BasePattern(f, sc) \o <<"v", ".", "yaml">>}
\* a directory whose name is that of an overlay
DirNames(f, sc) == {ConfName(f, sc, <<"d">>)}

ScenarioDirs(f, sc) ==
    {Dir(rd, EntriesOf(fs, FileEntry) @@ EntriesOf(ds, DirEntry(EmptyMap)) @@ tpl) :
        rd \in BOOLEAN,
        fs \in Subsets(FileNames(f, sc), MaxFiles),
        ds \in SUBSET DirNames(f, sc),
        tpl \in {EmptyMap,
                 EntriesOf({TemplatePattern(f, sc)}, FileEntry),
                 EntriesOf({TemplatePattern(f, sc)}, DirEntry(EmptyMap))}}

\* A scenario directory with a template and one overlay.
PlainScenario(f, sc) ==
    DirEntry(EntriesOf({TemplatePattern(f, sc), ConfName(f, sc, <<"v">>)}, FileEntry))

FolderF ==
    {Dir(rd, EntriesOf({<<"s">>}, sd) @@ other) :
        rd \in BOOLEAN,
        sd \in ScenarioDirs(<<"f">>, <<"s">>) \cup {FileEntry},
        other \in {EmptyMap, EntriesOf({<<"s", "-", "t">>}, PlainScenario(<<"f">>, <<"s", "-", "t">>))}}
FolderG ==
    {FileEntry,
     Unreadable(EntriesOf({<<"s">>}, PlainScenario(<<"g">>, <<"s">>))),
     DirEntry(EntriesOf({<<"s">>}, PlainScenario(<<"g">>, <<"s">>)))}

Roots ==
    {Dir(rd, EntriesOf({<<"f">>}, f) @@ g) :
        rd \in BOOLEAN,
        f \in FolderF,
        g \in {EmptyMap} \cup {EntriesOf({<<"g">>}, e) : e \in FolderG}}

NoDiscovery == [err |-> FALSE, list |-> <<>>]

InitDiscover ==
    /\ fsRoot \in Roots
    /\ discDone = FALSE
    /\ discRes = NoDiscovery

IdleDiscover ==
    /\ fsRoot = DirEntry(EmptyMap)
    /\ discDone = FALSE
    /\ discRes = NoDiscovery

\* DiscoverAllScenarios is called on the scenarios directory.
DiscoverCall ==
    /\ ~discDone
    /\ discRes' = DiscoverAllScenarios(fsRoot)
    /\ discDone' = TRUE
    /\ UNCHANGED <<fsRoot, notDisc>>

\* ProcessTemplate is called on the same files and context.
ProcessTemplateCall ==
    /\ tplN < MaxTplRuns
    /\ \E ordConf \in Rotations(SeqOf(ConfKeys(tconfFile))),
          ord \in Rotations(FieldNameOrder) :
          LET r == ProcessTemplate(tplFile, tconfFile, outFile, tctx, ordConf, ord)
          IN /\ tplRes' = r
             /\ outFile' = r.outFile
             /\ tplRes1' = IF tplN = 0 THEN r ELSE tplRes1
    /\ tplN' = tplN + 1
    /\ UNCHANGED <<tplFile, tconfFile, tctx, notTpl>>

(***************************************************************************)
(* One scenario variant run (test/support/test_utils.go): setupScenario in *)
(* the BeforeAll of an Ordered container, then the container's specs, then *)
(* the cleanups registered with DeferCleanup.  A failed Expect ends the     *)
(* node it is in; after a failure the remaining specs of an Ordered        *)
(* container are skipped and the registered cleanups run.                  *)
(***************************************************************************)
\* Faulty variant: only "true" selects the dry run
IsDryRunTrueOnly(value) == value = "true"

\* IsDryRun(): os.Getenv("DRY_RUN") == "true" || os.Getenv("DRY_RUN") == "1"
IsDryRun(value) == value = "true" \/ value = "1"

\* Faulty variant: a failed expectation does not end the node
ExpectIgnored(ok, next) == next

\* Expect(...).NotTo(HaveOccurred()) and the like: where the run goes next.
Expect(ok, next) == IF ok THEN next ELSE "cleanup"

Step(op, ok) == [op |-> op, ok |-> ok]

\* The specs of the container, in order: four of "Config Loading", then
\* "should install CR successfully" and "should wait for resource to be ready".
ConfigSpecs == 4
ExistenceIdx == ConfigSpecs + 1
ReadinessIdx == ConfigSpecs + 2

EnvValues == {"", "true", "1", "false", "0", "TRUE"}

InitScenario ==
    /\ env \in EnvValues
    /\ dryRun = FALSE
    /\ spc = "start"
    /\ specIdx = 0
    /\ slog = <<>>
    /\ nsCreated = FALSE
    /\ nsLive = FALSE
    /\ cleanupReg = FALSE
    /\ spolls = 0
    /\ sfailed = FALSE

IdleScenario ==
    /\ env = ""
    /\ dryRun = FALSE
    /\ spc = "idle"
    /\ specIdx = 0
    /\ slog = <<>>
    /\ nsCreated = FALSE
    /\ nsLive = FALSE
    /\ cleanupReg = FALSE
    /\ spolls = 0
    /\ sfailed = FALSE

\* setupScenario: testCtx with dryRun read from the environment; the dry run
\* makes up a namespace name.
ScenarioStart ==
    /\ spc = "start"
    /\ dryRun' = IsDryRun(env)
    /\ spc' = IF IsDryRun(env) THEN "template" ELSE "client"
    /\ UNCHANGED <<env, specIdx, slog, nsCreated, nsLive, cleanupReg, spolls,
                   sfailed, notScn>>

\* kubernetes.GetClient() and the two expectations on what it returned.
SetupGetClient ==
    /\ spc = "client"
    /\ \E got \in {"client", "error", "nil"} :
         /\ slog' = Append(slog, Step("GetClient", got = "client"))
         /\ spc' = Expect(got = "client", "namespace")
         /\ sfailed' = (got # "client")
    /\ UNCHANGED <<env, dryRun, specIdx, nsCreated, nsLive, cleanupReg, spolls,
                   notScn>>

\* support.CreateTestNamespace: cli.Create of the namespace, expected to
\* succeed.
SetupCreateNamespace ==
    /\ spc = "namespace"
    /\ \E ok \in BOOLEAN :
         /\ slog' = Append(slog, Step("CreateNamespace", ok))
         /\ nsCreated' = ok
         /\ nsLive' = ok
         /\ spc' = Expect(ok, "template")
         /\ sfailed' = ~ok
    /\ UNCHANGED <<env, dryRun, specIdx, cleanupReg, spolls, notScn>>

\* config.ProcessScenarioTemplate, expected to succeed.
SetupProcessTemplate ==
    /\ spc = "template"
    /\ \E ok \in BOOLEAN :
         /\ slog' = Append(slog, Step("ProcessScenarioTemplate", ok))
         /\ spc' = Expect(ok, "load")
         /\ sfailed' = ~ok
    /\ UNCHANGED <<env, dryRun, specIdx, nsCreated, nsLive, cleanupReg, spolls,
                   notScn>>

\* config.LoadConfig, expected to succeed; the dry run returns after it.
SetupLoadConfig ==
    /\ spc = "load"
    /\ \E ok \in BOOLEAN :
         /\ slog' = Append(slog, Step("LoadConfig", ok))
         /\ spc' = Expect(ok, IF dryRun THEN "specs" ELSE "install")
         /\ specIdx' = IF ok /\ dryRun THEN 1 ELSE specIdx
         /\ sfailed' = ~ok
    /\ UNCHANGED <<env, dryRun, nsCreated, nsLive, cleanupReg, spolls, notScn>>

\* installer.InstallConfig, expected to succeed.
SetupInstall ==
    /\ spc = "install"
    /\ \E ok \in BOOLEAN :
         /\ slog' = Append(slog, Step("InstallConfig", ok))
         /\ spc' = Expect(ok, "register")
         /\ sfailed' = ~ok
    /\ UNCHANGED <<env, dryRun, specIdx, nsCreated, nsLive, cleanupReg, spolls,
                   notScn>>

\* DeferCleanup(...): the deletion of the resource and of the namespace is
\* registered; setupScenario returns.
SetupDeferCleanup ==
    /\ spc = "register"
    /\ cleanupReg' = TRUE
    /\ slog' = Append(slog, Step("DeferCleanup", TRUE))
    /\ spc' = "specs"
    /\ specIdx' = 1
    /\ UNCHANGED <<env, dryRun, nsCreated, nsLive, spolls, sfailed, notScn>>

\* A spec of "Config Loading": expectations on the loaded configuration.
ConfigLoadingSpec ==
    /\ spc = "specs"
    /\ specIdx \in 1..ConfigSpecs
    /\ \E ok \in BOOLEAN :
         /\ slog' = Append(slog, Step("Assert", ok))
         /\ spc' = Expect(ok, "specs")
         /\ specIdx' = IF ok THEN specIdx + 1 ELSE specIdx
         /\ sfailed' = ~ok
    /\ UNCHANGED <<env, dryRun, nsCreated, nsLive, cleanupReg, spolls, notScn>>

\* "should install CR successfully": verifier.Get, expected non-nil; the dry
\* run returns at once.
ExistenceSpec ==
    /\ spc = "specs"
    /\ specIdx = ExistenceIdx
    /\ IF dryRun
       THEN /\ specIdx' = ReadinessIdx
            /\ UNCHANGED <<spc, slog, sfailed>>
       ELSE \E found \in BOOLEAN :
              /\ slog' = Append(slog, Step("Get", found))
              /\ spc' = Expect(found, "specs")
              /\ specIdx' = IF found THEN ReadinessIdx ELSE specIdx
              /\ sfailed' = ~found
    /\ UNCHANGED <<env, dryRun, nsCreated, nsLive, cleanupReg, spolls, notScn>>

\* "should wait for resource to be ready": verifier.Verify; the dry run
\* returns at once.
ReadinessSpec ==
    /\ spc = "specs"
    /\ specIdx = ReadinessIdx
    /\ spc' = IF dryRun THEN "cleanup" ELSE "verify"
    /\ UNCHANGED <<env, dryRun, specIdx, slog, nsCreated, nsLive, cleanupReg,
                   spolls, sfailed, notScn>>

\* A poll of Verify: it ends Verify when it observes the resource ready.
VerifyPoll ==
    /\ spc = "verify"
    /\ spolls < MaxPolls
    /\ \E ready \in BOOLEAN :
         /\ slog' = Append(slog, Step("Poll", ready))
         /\ spc' = IF ready THEN "cleanup" ELSE "verify"
    /\ spolls' = spolls + 1
    /\ UNCHANGED <<env, dryRun, specIdx, nsCreated, nsLive, cleanupReg, sfailed,
                   notScn>>

\* The deadline of Verify passes: the spec fails.
VerifyDeadline ==
    /\ spc = "verify"
    /\ spc' = "cleanup"
    /\ sfailed' = TRUE
    /\ UNCHANGED <<env, dryRun, specIdx, slog, nsCreated, nsLive, cleanupReg,
                   spolls, notScn>>

\* The registered cleanup: verifier.Get, Delete of the resource when found
\* (expected to succeed), Delete of the namespace.
CleanupSteps(found, deleted, nsDeleted) ==
    <<Step("Get", found)>>
        \o (IF found THEN <<Step("Delete", deleted)>> ELSE <<>>)
        \o (IF found /\ ~deleted THEN <<>> ELSE <<Step("DeleteNamespace", nsDeleted)>>)

\* The end of the container: the registered cleanups run.
ScenarioCleanup ==
    /\ spc = "cleanup"
    /\ IF cleanupReg
       THEN \E found \in BOOLEAN, deleted \in BOOLEAN, nsDeleted \in BOOLEAN :
              /\ found \/ deleted
              /\ ~(found /\ ~deleted) \/ nsDeleted
              /\ slog' = slog \o CleanupSteps(found, deleted, nsDeleted)
              /\ nsLive' = (nsLive /\ ~(nsDeleted /\ ~(found /\ ~deleted)))
       ELSE UNCHANGED <<slog, nsLive>>
    /\ spc' = "end"
    /\ UNCHANGED <<env, dryRun, specIdx, nsCreated, cleanupReg, spolls, sfailed,
                   notScn>>

(***************************************************************************)
(* pkg/kubernetes: GetClient, called by several goroutines.                *)
(***************************************************************************)
Callers == 1..MaxCallers
NilClient == 0

\* Faulty variant: the function runs unless a run of it has finished
DoRunsUnlessDone(state) == state # "done"

\* once.Do(f) runs f in the first caller only.
DoRuns(state) == state = "new"

InitClient ==
    /\ k8sClient = NilClient
    /\ once = "new"
    /\ built = 0
    /\ gpc = [g \in Callers |-> "idle"]
    /\ gerr = [g \in Callers |-> FALSE]
    /\ gcalls = [g \in Callers |-> 0]
    /\ rets = {}

IdleClient ==
    /\ k8sClient = NilClient
    /\ once = "new"
    /\ built = 0
    /\ gpc = [g \in Callers |-> "off"]
    /\ gerr = [g \in Callers |-> FALSE]
    /\ gcalls = [g \in Callers |-> 0]
    /\ rets = {}

\* GetClient up to once.Do: err is nil; the first caller runs the function,
\* a caller that arrives while it runs waits, a later caller goes on.
GetClientCall ==
    \E g \in Callers :
        /\ gpc[g] = "idle"
        /\ gcalls[g] < MaxGetCalls
        /\ gcalls' = [gcalls EXCEPT ![g] = @ + 1]
        /\ gerr' = [gerr EXCEPT ![g] = FALSE]
        /\ IF DoRuns(once)
           THEN /\ once' = "running"
                /\ built' = built + 1
                /\ gpc' = [gpc EXCEPT ![g] = "cfg"]
           ELSE /\ gpc' = [gpc EXCEPT ![g] = IF once = "done" THEN "return" ELSE "blocked"]
                /\ UNCHANGED <<once, built>>
        /\ UNCHANGED <<k8sClient, rets, notCli>>

\* config.GetConfig() inside the function: on an error err is set and the
\* function returns.
InitGetConfig ==
    \E g \in Callers, ok \in BOOLEAN :
        /\ gpc[g] = "cfg"
        /\ gerr' = [gerr EXCEPT ![g] = ~ok]
        /\ gpc' = [gpc EXCEPT ![g] = IF ok THEN "new" ELSE "return"]
        /\ once' = IF ok THEN once ELSE "done"
        /\ UNCHANGED <<k8sClient, built, gcalls, rets, notCli>>

\* k8sClient, err = client.New(...): the function returns.
InitNewClient ==
    \E g \in Callers, ok \in BOOLEAN :
        /\ gpc[g] = "new"
        /\ k8sClient' = IF ok THEN g ELSE NilClient
        /\ gerr' = [gerr EXCEPT ![g] = ~ok]
        /\ gpc' = [gpc EXCEPT ![g] = "return"]
        /\ once' = "done"
        /\ UNCHANGED <<built, gcalls, rets, notCli>>

\* once.Do returns in a caller that waited, when the function has returned.
OnceUnblock ==
    \E g \in Callers :
        /\ gpc[g] = "blocked"
        /\ once = "done"
        /\ gpc' = [gpc EXCEPT ![g] = "return"]
        /\ UNCHANGED <<k8sClient, once, built, gerr, gcalls, rets, notCli>>

\* return k8sClient, err
GetClientReturn ==
    \E g \in Callers :
        /\ gpc[g] = "return"
        /\ rets' = rets \cup {[g |-> g, n |-> gcalls[g], client |-> k8sClient,
                               err |-> gerr[g]]}
        /\ gpc' = [gpc EXCEPT ![g] = "idle"]
        /\ UNCHANGED <<k8sClient, once, built, gerr, gcalls, notCli>>

(***************************************************************************)
(* splitYAMLDocuments applied to bounded texts.                            *)
(***************************************************************************)
\* The lines drawn: separators plain and padded, blank lines, content, and
\* lines that hold three dashes without being a separator.
SplitLines ==
    {Dashes, <<" ">> \o Dashes \o <<" ">>, <<>>, <<" ">>, <<"a">>, <<"b">>,
     Dashes \o <<"-">>, Dashes \o <<" ", "a">>}
SplitTexts == SeqsUpTo(SplitLines, MaxSplitLines) \ {<<>>}

InitSplit ==
    /\ splitIn \in SplitTexts
    /\ splitDone = FALSE
    /\ splitOut = <<>>

IdleSplit ==
    /\ splitIn = EmptyText
    /\ splitDone = FALSE
    /\ splitOut = <<>>

\* splitYAMLDocuments is called on the content.
SplitCall ==
    /\ ~splitDone
    /\ splitOut' = splitYAMLDocuments(splitIn)
    /\ splitDone' = TRUE
    /\ UNCHANGED <<splitIn, notSplit>>

NoGet == [phase |-> 0, outcome |-> "none", obj |-> EmptyObj, ret |-> NilSnap,
          done |-> FALSE]

InitVerify ==
    /\ res \in ResStates
    /\ ctxDone \in BOOLEAN
    /\ vpc = "idle"
    /\ polls = 0
    /\ lastGet = NoGet
    /\ p1Got = FALSE
    /\ p1Obj = NilSnap
    /\ gets = 0
    /\ lookups = 0

InitIsReady ==
    /\ snap \in Snapshots
    /\ rdyDone = FALSE
    /\ rdyRes = FALSE

\* The variables of a component a specification does not run.
IdleInstall ==
    /\ manifest = <<BlankDoc>>
    /\ cluster = [k \in Keys |-> AbsentObj]
    /\ rev = 1
    /\ cluster0 = cluster
    /\ startCl = cluster
    /\ ipc = "idle"
    /\ idx = 0
    /\ existing = NoLookup
    /\ iret = "none"
    /\ run = 0
    /\ calls = <<>>
    /\ nOther = 0
    /\ faulted = FALSE

IdleVerify ==
    /\ res = ResAbsent
    /\ ctxDone = FALSE
    /\ vpc = "idle"
    /\ polls = 0
    /\ lastGet = NoGet
    /\ p1Got = FALSE
    /\ p1Obj = NilSnap
    /\ gets = 0
    /\ lookups = 0

IdleIsReady ==
    /\ snap = NilSnap
    /\ rdyDone = FALSE
    /\ rdyRes = FALSE

\* The existence check before Verify: one direct call of Get.
GetCall ==
    /\ vpc = "idle"
    /\ \E fault \in BOOLEAN :
         LET lk == ClusterLookup(res, fault, ctxDone)
         IN lastGet' = [phase |-> 0, outcome |-> lk.outcome, obj |-> lk.obj,
                        ret |-> Get(lk), done |-> ctxDone]
    /\ gets' = gets + 1
    /\ lookups' = lookups + 1
    /\ vpc' = "checked"
    /\ UNCHANGED <<res, ctxDone, polls, p1Got, p1Obj, notVer>>

\* Verify is called: the first Eventually polls at once.
VerifyStart ==
    /\ vpc \in {"idle", "checked"}
    /\ vpc' = "poll1"
    /\ UNCHANGED <<res, ctxDone, polls, lastGet, p1Got, p1Obj, gets, lookups,
                   notVer>>

\* A poll of phase 1.
Poll1 ==
    /\ vpc = "poll1"
    /\ \E fault \in BOOLEAN :
         LET lk == ClusterLookup(res, fault, ctxDone)
             obj == Get(lk)
         IN /\ lastGet' = [phase |-> 1, outcome |-> lk.outcome, obj |-> lk.obj,
                           ret |-> obj, done |-> ctxDone]
            /\ p1Got' = (p1Got \/ lk.outcome = "ok")
            /\ IF Phase1Done(obj)
               THEN vpc' = "poll2" /\ p1Obj' = obj
               ELSE vpc' = PollMiss(1) /\ p1Obj' = p1Obj
    /\ gets' = gets + 1
    /\ lookups' = lookups + 1
    /\ UNCHANGED <<res, ctxDone, polls, notVer>>

\* A poll of phase 2.
Poll2 ==
    /\ vpc = "poll2"
    /\ \E fault \in BOOLEAN :
         LET lk == ClusterLookup(res, fault, ctxDone)
             obj == Phase2Obj(Get(lk), p1Obj)
         IN /\ lastGet' = [phase |-> 2, outcome |-> lk.outcome, obj |-> lk.obj,
                           ret |-> Get(lk), done |-> ctxDone]
            /\ IF Phase2Done(obj)
               THEN vpc' = "success"
               ELSE vpc' = PollMiss(2)
    /\ gets' = gets + 1
    /\ lookups' = lookups + 1
    /\ UNCHANGED <<res, ctxDone, polls, p1Got, p1Obj, notVer>>

\* The polling interval elapses: Eventually polls again.
WaitTimer ==
    /\ vpc \in {"wait1", "wait2"}
    /\ polls < MaxPolls
    /\ polls' = polls + 1
    /\ vpc' = IF vpc = "wait1" THEN "poll1" ELSE "poll2"
    /\ UNCHANGED <<res, ctxDone, lastGet, p1Got, p1Obj, gets, lookups, notVer>>

\* The context is done while Eventually waits: the fail handler ends Verify.
WaitCtx ==
    /\ vpc \in {"wait1", "wait2"}
    /\ CtxFires(ctxDone)
    /\ vpc' = "failed"
    /\ UNCHANGED <<res, ctxDone, polls, lastGet, p1Got, p1Obj, gets, lookups,
                   notVer>>

\* The deadline passes, or the caller cancels.
CtxExpire ==
    /\ ~ctxDone
    /\ ctxDone' = TRUE
    /\ UNCHANGED <<res, vpc, polls, lastGet, p1Got, p1Obj, gets, lookups, notVer>>

\* The cluster changes the resource: created, reconciled, deleted.
ResChange ==
    /\ res' \in ResStates \ {res}
    /\ UNCHANGED <<ctxDone, vpc, polls, lastGet, p1Got, p1Obj, gets, lookups,
                   notVer>>

\* IsReady is called with a snapshot.
IsReadyCall ==
    /\ ~rdyDone
    /\ rdyDone' = TRUE
    /\ rdyRes' = IsReady(snap)
    /\ UNCHANGED <<snap, notRdy>>

IdleTests == IdleScenario /\ IdleClient /\ IdleSplit
IdleFiles == IdleTemplate /\ IdleConf /\ IdleDiscover /\ IdleTests
IdleCore == IdleInstall /\ IdleVerify /\ IdleIsReady /\ IdleConfig

Init == InitInstall /\ IdleVerify /\ IdleIsReady /\ IdleConfig /\ IdleFiles

Next ==
    \/ InstallStart
    \/ InstallLookup
    \/ InstallCreate
    \/ InstallUpdate
    \/ OtherWriter

Spec == Init /\ [][Next]_vars

VerifyStep == VerifyStart \/ Poll1 \/ Poll2 \/ WaitTimer \/ WaitCtx

NextVerify ==
    \/ GetCall
    \/ VerifyStart
    \/ Poll1
    \/ Poll2
    \/ WaitTimer
    \/ WaitCtx
    \/ CtxExpire
    \/ ResChange

VerifyInit == IdleInstall /\ InitVerify /\ IdleIsReady /\ IdleConfig /\ IdleFiles

SpecVerify == VerifyInit /\ [][NextVerify]_vars

\* The goroutine running Verify keeps running, and the caller's deadline is
\* finite.
FairSpecVerify == SpecVerify /\ WF_vars(VerifyStep) /\ WF_vars(CtxExpire)

IsReadyInit == IdleInstall /\ IdleVerify /\ InitIsReady /\ IdleConfig /\ IdleFiles

SpecIsReady == IsReadyInit /\ [][IsReadyCall]_vars

ConfigInit == IdleInstall /\ IdleVerify /\ IdleIsReady /\ InitConfig /\ IdleFiles

NextConfig ==
    \/ UpdateConfigCall
    \/ UpdateConfigAgain

SpecConfig == ConfigInit /\ [][NextConfig]_vars

TemplateInit == IdleCore /\ InitTemplate /\ IdleConf /\ IdleDiscover /\ IdleTests

SpecTemplate == TemplateInit /\ [][ProcessTemplateCall]_vars

ConfInit == IdleCore /\ IdleTemplate /\ InitConf /\ IdleDiscover /\ IdleTests

SpecConf == ConfInit /\ [][LoadConfCall]_vars

DiscoverInit == IdleCore /\ IdleTemplate /\ IdleConf /\ InitDiscover /\ IdleTests

SpecDiscover == DiscoverInit /\ [][DiscoverCall]_vars

ScenarioInit ==
    /\ IdleCore /\ IdleTemplate /\ IdleConf /\ IdleDiscover
    /\ InitScenario /\ IdleClient /\ IdleSplit

NextScenario ==
    \/ ScenarioStart
    \/ SetupGetClient
    \/ SetupCreateNamespace
    \/ SetupProcessTemplate
    \/ SetupLoadConfig
    \/ SetupInstall
    \/ SetupDeferCleanup
    \/ ConfigLoadingSpec
    \/ ExistenceSpec
    \/ ReadinessSpec
    \/ VerifyPoll
    \/ VerifyDeadline
    \/ ScenarioCleanup

SpecScenario == ScenarioInit /\ [][NextScenario]_vars

ClientInit ==
    /\ IdleCore /\ IdleTemplate /\ IdleConf /\ IdleDiscover
    /\ IdleScenario /\ InitClient /\ IdleSplit

NextClient ==
    \/ GetClientCall
    \/ InitGetConfig
    \/ InitNewClient
    \/ OnceUnblock
    \/ GetClientReturn

SpecClient == ClientInit /\ [][NextClient]_vars

SplitInit ==
    /\ IdleCore /\ IdleTemplate /\ IdleConf /\ IdleDiscover
    /\ IdleScenario /\ IdleClient /\ InitSplit

SpecSplit == SplitInit /\ [][SplitCall]_vars

(***************************************************************************)
(* Properties of InstallConfig.                                            *)
(***************************************************************************)
CallIdx == 1..Len(calls)
MutIdx(r) == {n \in CallIdx : calls[n].run = r /\ calls[n].op # "get"}
DocIdx(r, d) == {n \in CallIdx : calls[n].run = r /\ calls[n].doc = d}
Gets(r, d) == {n \in DocIdx(r, d) : calls[n].op = "get"}
Muts(r, d) == {n \in DocIdx(r, d) : calls[n].op # "get"}

\* The installer is past document d of call r.
Completed(r, d) == r < run \/ (r = run /\ (d < idx \/ ipc = "done"))
Processed == {rd \in (1..run) \X (1..Len(manifest)) :
                 DocIdx(rd[1], rd[2]) # {} /\ Completed(rd[1], rd[2])}

NoOtherWriter == nOther = 0
Faithful == ~faulted      \* every cluster call was answered by the API's rules
SingleDoc == Len(manifest) = 1 /\ manifest[1].kind = "obj"
AllObjects == \A d \in 1..Len(manifest) : manifest[d].kind = "obj"

\* C1: from a cluster where the resource is absent and with no other writer,
\* two InstallConfig calls in sequence with the same single document issue
\* exactly one Create (in the first call) and then exactly one Update (in the
\* second); a second Create is never issued.
C1_Scenario ==
    SingleDoc /\ ~cluster0[manifest[1].key].present /\ NoOtherWriter /\ Faithful
C1_CreateThenUpdate ==
    C1_Scenario /\ run <= 2 =>
        /\ Cardinality({n \in CallIdx : calls[n].op = "create"}) <= 1
        /\ (run = 2 /\ ipc = "done") =>
              /\ iret = "ok"
              /\ \E c \in MutIdx(1), u \in MutIdx(2) :
                    /\ MutIdx(1) = {c} /\ calls[c].op = "create"
                    /\ MutIdx(2) = {u} /\ calls[u].op = "update"
                    /\ c < u
C1_Witness ==
    C1_Scenario /\ run = 2 /\ ipc = "done" /\ Len(calls) = 4

\* C2 (as claimed): every document InstallConfig processes gets one lookup and
\* then exactly one mutating call, Create iff the lookup reported not-found,
\* Update iff it succeeded, the Update carrying the looked-up resourceVersion.
OneLookupOneMutation(r, d) ==
    \E g \in Gets(r, d), m \in Muts(r, d) :
        /\ Gets(r, d) = {g} /\ Muts(r, d) = {m} /\ g < m
        /\ (calls[m].op = "create") <=> (calls[g].outcome = "notfound")
        /\ (calls[m].op = "update") <=> (calls[g].outcome = "ok")
        /\ calls[m].op = "update" => calls[m].rv = calls[g].rv
C2_Original == \A rd \in Processed : OneLookupOneMutation(rd[1], rd[2])

\* C2 (amended): every document InstallConfig processes gets one lookup, and
\* then exactly one mutating call unless the lookup failed with an error other
\* than not-found, in which case none: Create iff not-found, Update iff found,
\* the Update carrying the resourceVersion that lookup returned.
C2_OneMutationUnlessLookupError ==
    \A rd \in Processed :
        \/ OneLookupOneMutation(rd[1], rd[2])
        \/ \E g \in Gets(rd[1], rd[2]) :
              /\ DocIdx(rd[1], rd[2]) = {g}
              /\ calls[g].outcome = "error"
C2_Witness ==
    \E rd \in Processed : \E m \in Muts(rd[1], rd[2]) :
        calls[m].op = "update" /\ calls[m].outcome = "ok" /\ calls[m].rv > 1

\* C3: when the lookup, Create or Update of document N fails, InstallConfig
\* returns an error, issues no cluster call for documents N+1..end, and rolls
\* nothing back: documents 1..N-1 stay as this call stored them.
LastObjBefore(k, n) ==
    LET js == {j \in 1..(n - 1) : manifest[j].kind = "obj" /\ manifest[j].key = k}
    IN IF js = {} THEN 0 ELSE CHOOSE j \in js : \A h \in js : h <= j
C3_FailFastNoRollback ==
    /\ \A n \in CallIdx : calls[n].outcome = "error" =>
          /\ \A h \in CallIdx : h > n => calls[h].run > calls[n].run
          /\ calls[n].run = run =>
                ipc = "done" /\ iret = "err" /\ idx = calls[n].doc
    /\ (ipc = "done" /\ iret = "err") =>
          /\ \A n \in CallIdx : calls[n].run = run => calls[n].doc <= idx
          /\ NoOtherWriter =>
                \A k \in Keys :
                    LET j == LastObjBefore(k, idx)
                    IN IF j = 0
                       THEN cluster[k].present = startCl[k].present
                            /\ cluster[k].content = startCl[k].content
                       ELSE cluster[k].present
                            /\ cluster[k].content = manifest[j].content
C3_Witness ==
    /\ ipc = "done" /\ iret = "err" /\ idx = 2 /\ NoOtherWriter
    /\ \E n \in CallIdx : calls[n].run = run /\ calls[n].doc = 2
                          /\ calls[n].outcome = "error"
    /\ cluster # startCl

\* C4: re-running InstallConfig with identical documents, with no other
\* writer, succeeds and converges: every object's stored content and the set
\* of objects are what they were after the previous run.
C4_Scenario ==
    AllObjects /\ NoOtherWriter /\ Faithful /\ run >= 2 /\ ipc = "done"
C4_RerunConverges ==
    C4_Scenario =>
        /\ iret = "ok"
        /\ \A k \in Keys :
              /\ cluster[k].present = startCl[k].present
              /\ cluster[k].content = startCl[k].content
C4_Witness ==
    C4_Scenario /\ Len(manifest) = 2 /\ manifest[1].key = manifest[2].key
    /\ manifest[1].content # manifest[2].content /\ cluster # startCl

(***************************************************************************)
(* Properties of Verify, Get and IsReady.                                  *)
(***************************************************************************)
\* C5: Verify runs two polling phases in sequence: phase 2 starts only after
\* a phase-1 Get returned a present snapshot, and Verify succeeds only on a
\* Get performed during phase 2 whose snapshot IsReady accepts.
C5_TwoPhases ==
    /\ vpc \in {"poll2", "wait2", "success"} => p1Got
    /\ vpc = "success" =>
          /\ lastGet.phase = 2
          /\ lastGet.outcome = "ok"
          /\ IsReady(lastGet.obj)
C5_Witness ==
    vpc = "success" /\ ~IsReady(p1Obj) /\ lastGet.phase = 2

\* C6: under a finite deadline Verify terminates, in success or in failure;
\* it fails only once the context is done, and it succeeds only if the
\* resource was observed present in phase 1 and Ready in phase 2 while the
\* context was not yet done.
C6_Safe ==
    /\ vpc = "failed" => ctxDone
    /\ vpc = "success" =>
          /\ p1Got
          /\ lastGet.phase = 2 /\ lastGet.outcome = "ok" /\ ~lastGet.done
          /\ IsReady(lastGet.obj)
C6_TerminatesByDeadline ==
    /\ []C6_Safe
    /\ (vpc = "poll1") ~> (vpc \in {"success", "failed"})
C6_Witness ==
    vpc = "failed" /\ ~p1Got /\ polls > 0

\* C7: a poll that observes not-found (a retrieval error included, and the
\* resource gone again in phase 2) or not-ready never fails Verify: it is
\* retried, Verify fails only once the context is done, and a phase-2 poll
\* that observes the resource present and Ready ends Verify in success.
C7_Step ==
    /\ (vpc # "failed" /\ vpc' = "failed") => ctxDone
    /\ (vpc = "poll1" /\ vpc' # vpc) =>
          IF lastGet'.outcome = "ok" THEN vpc' = "poll2" ELSE vpc' = "wait1"
    /\ (vpc = "poll2" /\ vpc' # vpc) =>
          IF lastGet'.outcome = "ok" /\ IsReady(lastGet'.obj)
          THEN vpc' = "success" ELSE vpc' = "wait2"
    /\ (vpc = "wait1" /\ vpc' # vpc) => vpc' \in {"poll1", "failed"}
    /\ (vpc = "wait2" /\ vpc' # vpc) => vpc' \in {"poll2", "failed"}
C7_RetriesUntilDeadline == [][C7_Step]_vars
C7_Witness ==
    /\ vpc = "success" /\ polls >= 2 /\ ~ctxDone

\* C8: for a snapshot whose status.conditions holds at most one entry of type
\* "Ready", IsReady returns true iff that entry exists and its status is the
\* string "True"; a nil snapshot, a missing or ill-typed status or conditions
\* and entries that are not mappings or have other types give false.
ReadyEntries(o) ==
    {j \in 1..Len(o.entries) :
        o.entries[j].isMap /\ o.entries[j].type = Str("Ready")}
C8_IsReadyIffReadyTrue ==
    (rdyDone /\ Cardinality(ReadyEntries(snap)) <= 1) =>
        (rdyRes <=>
            /\ ~snap.nil /\ snap.status = "map" /\ snap.conds = "seq"
            /\ \E j \in ReadyEntries(snap) : snap.entries[j].status = Str("True"))
C8_Witness ==
    /\ rdyDone /\ rdyRes /\ Len(snap.entries) = 2
    /\ \E j \in 1..2 : snap.entries[j].type = Str("Progressing")
                       /\ snap.entries[j].status = Str("True")

\* C9: Get performs exactly one cluster lookup, returns a snapshot iff that
\* lookup succeeded (nil on not-found and on any other error), and leaves
\* the cluster as it was.
C9_Step ==
    gets' # gets =>
        /\ gets' = gets + 1
        /\ lookups' = lookups + 1
        /\ res' = res
        /\ (~lastGet'.ret.nil) <=> (lastGet'.outcome = "ok")
        /\ lastGet'.outcome = "ok" => (res.present /\ lastGet'.ret = res.obj)
C9_GetOneLookupNilOnError == [][C9_Step]_vars
C9_Witness ==
    gets > 0 /\ lastGet.outcome = "error" /\ lastGet.ret = NilSnap /\ res.present

(***************************************************************************)
(* Properties of UpdateConfig.                                             *)
(***************************************************************************)
WellFormedInput == cfgIn = PathValue(cfgPath, cfgVal)
FreshRoundTrip == cfgDone /\ doc0 = EmptyMap /\ WellFormedInput

Padded(v) == v # <<>> /\ (IsSpace(v[1]) \/ IsSpace(v[Len(v)]))
Blanks(n) == [j \in 1..n |-> " "]
SingleSegment == WellFormedInput /\ Len(cfgPath) = 1
C11_SingleSegmentIdempotent ==
    (SingleSegment /\ cfgN >= 2) => (~cfgErr /\ doc = doc1)
C11_Witness ==
    /\ SingleSegment /\ cfgN = 2 /\ doc0 = LeafA /\ cfgPath = <<<<"a">>>>
    /\ cfgVal = <<"x">> /\ doc = doc1 /\ doc # doc0

\* C12: when a non-leaf segment of the path is present in the document and
\* holds a value that is not a mapping (a string, a list), UpdateConfig
\* returns no error and leaves at that segment a new mapping that holds only
\* the rest of the path, ending in the value it stores.
RECURSIVE Chain(_, _)
Chain(segs, v) ==
    IF Len(segs) = 1 THEN (Head(segs) :> StrVal(v))
    ELSE (Head(segs) :> MapVal(Chain(Tail(segs), v)))
Prefix(path, n) == SubSeq(path, 1, n)
Suffix(path, n) == SubSeq(path, n + 1, Len(path))
NonMapping(v) == v.t \in {"str", "list"}
C12_DestructiveOverwrite ==
    (WellFormedInput /\ cfgN = 1) =>
        \A n \in 1..(Len(cfgPath) - 1) :
            NonMapping(ReadPath(doc0, Prefix(cfgPath, n))) =>
                /\ ~cfgErr
                /\ ReadPath(doc, Prefix(cfgPath, n))
                      = MapVal(Chain(Suffix(cfgPath, n), TrimSpace(cfgVal)))
C12_Witness ==
    /\ WellFormedInput /\ cfgN = 1 /\ ~cfgErr
    /\ cfgPath = <<<<"a">>, <<"b">>, <<"a">>>> /\ cfgVal = <<"x">>
    /\ ReadPath(doc0, <<<<"a">>, <<"b">>>>) = StrVal(<<"x">>)
    /\ ReadPath(doc, <<<<"a">>, <<"b">>>>) = MapVal((<<"a">> :> StrVal(<<"x">>)))
    /\ ReadPath(doc, <<<<"a">>, <<"c">>>>) = ListVal

\* C13 (as claimed): UpdateConfig returns an error and leaves the document
\* as it was whenever the pathValue string has no "=" or the part before the
\* "=" is empty.
NoSeparator == IndexOf(cfgIn, "=") = 0
EmptyPathPart == IndexOf(cfgIn, "=") = 1
C13_InvalidPathRejected ==
    (cfgN = 1 /\ (NoSeparator \/ EmptyPathPart)) => (cfgErr /\ doc = doc0)

(***************************************************************************)
(* Properties of ProcessTemplate.                                          *)
(***************************************************************************)
\* C14: two runs of ProcessTemplate on the same template, the same overlay
\* and the same RuntimeContext return the same result and leave the same
\* bytes in the output file, whatever order the range loops of each run
\* visited the map keys in.
C14_Deterministic ==
    tplN >= 2 =>
        /\ tplRes.err = tplRes1.err
        /\ tplRes.docs = tplRes1.docs
        /\ tplRes.outFile = tplRes1.outFile
C14_Witness ==
    /\ tplN = 2 /\ tplRes.err = "nil" /\ ~tctx.nil
    /\ Len(tplRes.docs) = 2
    /\ Cardinality(ConfKeys(tconfFile)) = 2
    /\ tplRes.outFile = tplRes1.outFile
    /\ tplRes.outFile.lines = Join(tplRes.docs, SeparatorText)

\* C15: in the text the raw-text phase hands on, every {{NAMESPACE}} of the
\* template is replaced by the context's namespace and every
\* {{INSTANCE_NAME}} by its instance name, every other {{IDENTIFIER}} token
\* and all other text is as in the template, and the phase raises no error;
\* a document whose metadata.namespace is {{NAMESPACE}} in the template has
\* metadata.namespace equal to the namespace in the output.
RECURSIVE ReplaceSub(_, _, _)
ReplaceSub(str, pat, by) ==
    IF Len(str) < Len(pat) THEN str
    ELSE IF SubSeq(str, 1, Len(pat)) = pat
    THEN by \o ReplaceSub(SubSeq(str, Len(pat) + 1, Len(str)), pat, by)
    ELSE <<Head(str)>> \o ReplaceSub(Tail(str), pat, by)
Substituted(line) ==
    ReplaceSub(ReplaceSub(line, Ph("NAMESPACE"), tctx.Namespace),
               Ph("INSTANCE_NAME"), tctx.InstanceName)
Range(seq) == {seq[j] : j \in 1..Len(seq)}
SourceDocs ==
    SelectSeq(splitYAMLDocuments(tplFile.lines), LAMBDA d : ~AllBlank(d))
TextPhaseRan == tplN >= 1 /\ ~tctx.nil /\ tplRes.err \in {"nil", "parse"}
NamespaceInMetadata(d) ==
    \E j \in 1..(Len(d) - 1) :
        d[j] = Fld(0, "metadata", <<>>) /\ d[j + 1] = Fld(2, "namespace", Ph("NAMESPACE"))
C15_RawTextPhase ==
    TextPhaseRan =>
        /\ tplRes.text = [j \in 1..Len(tplFile.lines) |-> Substituted(tplFile.lines[j])]
        /\ tplRes.err = "nil" =>
              /\ Len(tplRes.docs) = Len(SourceDocs)
              /\ \A i \in 1..Len(SourceDocs) :
                    NamespaceInMetadata(SourceDocs[i]) =>
                        LET out == Unmarshal(tplRes.docs[i])
                        IN /\ ~out.err
                           /\ out.v.m["metadata"].m["namespace"] = YStr(tctx.Namespace)
C15_Witness ==
    /\ TextPhaseRan /\ tplRes.err = "nil"
    /\ tplFile = File(Two(BodyMeta, Dashes, One(BodyTokens)))
    /\ tplRes.text[5] =
          Fld(0, "kind", Quoted(Ph("FOO") \o tctx.Namespace \o tctx.InstanceName))
    /\ Unmarshal(tplRes.docs[1]).v.m["metadata"].m["namespace"] = YStr(<<"ns", "-", "1">>)

\* The nodes of a document tree by path: a path names mapping keys and
\* sequence positions from the root down.
IndexNames == <<"#1", "#2", "#3">>
RECURSIVE NodePaths(_)
NodePaths(v) ==
    {<<>>} \cup
        IF v.t \in {"map", "gmap"}
        THEN UNION {{<<k>> \o p : p \in NodePaths(v.m[k])} : k \in DOMAIN v.m}
        ELSE IF v.t = "seq"
        THEN UNION {{<<IndexNames[j]>> \o p : p \in NodePaths(v.l[j])} : j \in 1..Len(v.l)}
        ELSE {}
IndexOfName(n) == CHOOSE j \in 1..Len(IndexNames) : IndexNames[j] = n
RECURSIVE At(_, _)
At(v, p) ==
    IF p = <<>> THEN v
    ELSE IF v.t = "seq" THEN At(v.l[IndexOfName(Head(p))], Tail(p))
    ELSE At(v.m[Head(p)], Tail(p))
Front(p) == SubSeq(p, 1, Len(p) - 1)
Last(p) == p[Len(p)]
\* The string-valued mapping fields of a tree, at any depth.
StringFields(v) ==
    {p \in NodePaths(v) :
        /\ p # <<>>
        /\ At(v, Front(p)).t \in {"map", "gmap"}
        /\ At(v, p).t = "str"}
Contains(str, pat) ==
    \E j \in 1..(Len(str) - Len(pat) + 1) : SubSeq(str, j, j + Len(pat) - 1) = pat
Succeeded == tplN >= 1 /\ tplRes.err = "nil"
LoadedOverlay == LoadConfFile(tconfFile).m

\* C16: with a runtime context, every field whose sentinel was replaced from
\* the overlay holds the overlay value with the runtime placeholders already
\* substituted, never the literal {{NAMESPACE}} or {{INSTANCE_NAME}} token.
C16_OverlaySubstitutedFirst ==
    (Succeeded /\ ~tctx.nil) =>
        \A i \in 1..Len(tplRes.parsed) :
            \A p \in StringFields(tplRes.parsed[i]) :
                (/\ At(tplRes.parsed[i], p).s = <<Sentinel>>
                 /\ <<Last(p)>> \in DOMAIN LoadedOverlay
                 /\ At(tplRes.trees[i], p) # At(tplRes.parsed[i], p))
                => LET got == At(tplRes.trees[i], p)
                   IN /\ got = YStr(Substituted(LoadedOverlay[<<Last(p)>>]))
                      /\ ~Contains(got.s, Ph("NAMESPACE"))
                      /\ ~Contains(got.s, Ph("INSTANCE_NAME"))
C16_Witness ==
    /\ Succeeded /\ ~tctx.nil
    /\ tplFile = File(One(BodySpec))
    /\ <<"Issuer">> \in DOMAIN LoadedOverlay
    /\ LoadedOverlay[<<"Issuer">>] = <<"kc", ".">> \o Ph("NAMESPACE")
    /\ At(tplRes.parsed[1], <<"spec", "Issuer">>) = YStr(<<Sentinel>>)
    /\ At(tplRes.trees[1], <<"spec", "Issuer">>) = YStr(<<"kc", ".">> \o tctx.Namespace)
    /\ Unmarshal(tplRes.docs[1]).v = tplRes.trees[1]

\* The overlay the structural pass is given.
EffectiveOverlay ==
    IF tctx.nil THEN LoadedOverlay
    ELSE [k \in DOMAIN LoadedOverlay |-> Substituted(LoadedOverlay[k])]
FieldAsClaimed(before, after, key) ==
    IF before.s = <<Sentinel>>
    THEN IF <<key>> \in DOMAIN EffectiveOverlay
         THEN after = YStr(EffectiveOverlay[<<key>>])
         ELSE after = before
    ELSE after = before

\* C17 (as claimed): after the structural phase every string-valued mapping
\* field at any depth, inside nested mappings and inside sequences, that held
\* the sentinel holds the overlay value of its own key name when the overlay
\* has that key and the sentinel otherwise, and every field that did not hold
\* the sentinel is unchanged.
C17_StructuralPhase ==
    Succeeded =>
        \A i \in 1..Len(tplRes.parsed) :
            \A p \in StringFields(tplRes.parsed[i]) :
                FieldAsClaimed(At(tplRes.parsed[i], p), At(tplRes.trees[i], p), Last(p))

\* C17, for the fields the pass reaches: the same, for the fields that lie
\* under mappings with string keys and sequences only.
RECURSIVE StringKeyedAbove(_, _)
StringKeyedAbove(v, p) ==
    p = <<>> \/ (v.t # "gmap" /\ StringKeyedAbove(At(v, <<Head(p)>>), Tail(p)))
C17_StringKeyedFields ==
    Succeeded =>
        \A i \in 1..Len(tplRes.parsed) :
            \A p \in StringFields(tplRes.parsed[i]) :
                StringKeyedAbove(tplRes.parsed[i], p) =>
                    FieldAsClaimed(At(tplRes.parsed[i], p), At(tplRes.trees[i], p), Last(p))

\* C18: for a template of two non-empty documents with a line holding only
\* --- between them, ProcessTemplate succeeds with exactly two serialized
\* documents, the first from the template's first document and the second
\* from its second, each of which parses on its own; the output file holds
\* the two with a separator line between them.
AsHandedOn(d) ==
    IF tctx.nil THEN d ELSE [j \in 1..Len(d) |-> Substituted(d[j])]
WellFormedDoc(d) == ~AllBlank(d) /\ ~Unmarshal(AsHandedOn(d)).err
TwoDocuments(a, b) ==
    /\ WellFormedDoc(a) /\ WellFormedDoc(b)
    /\ \E sep \in Separators : tplFile = File(Two(a, sep, One(b)))
InOutput(i, d) ==
    /\ tplRes.parsed[i] = Unmarshal(AsHandedOn(d)).v
    /\ ~Unmarshal(tplRes.docs[i]).err
    /\ Unmarshal(tplRes.docs[i]).v = tplRes.trees[i]
    /\ \A j \in 1..Len(tplRes.docs[i]) : ~IsSeparator(tplRes.docs[i][j])
C18_TwoDocuments ==
    \A a, b \in PairBodies :
        (tplN >= 1 /\ TwoDocuments(a, b) /\ ~LoadConfFile(tconfFile).err) =>
            /\ tplRes.err = "nil"
            /\ Len(tplRes.docs) = 2
            /\ InOutput(1, a) /\ InOutput(2, b)
            /\ outFile.exists
            /\ outFile.lines =
                  Front(tplRes.docs[1]) \o <<Dashes>> \o tplRes.docs[2]
C18_Witness ==
    /\ tplN >= 1 /\ ~tctx.nil /\ tplRes.err = "nil"
    /\ tplFile = File(Two(BodyMeta, <<" ">> \o Dashes \o <<" ">>, One(BodySpec)))
    /\ Len(tplRes.docs) = 2
    /\ DOMAIN Unmarshal(tplRes.docs[1]).v.m = {"metadata"}
    /\ DOMAIN Unmarshal(tplRes.docs[2]).v.m = {"spec"}
    /\ Len(SelectSeq(outFile.lines, IsSeparator)) = 1

(***************************************************************************)
(* Properties of LoadConfFile.                                             *)
(***************************************************************************)
ConfLine(j) == TrimSpace(confIn.lines[j])
Ignored(j) == ConfLine(j) = <<>> \/ ConfLine(j)[1] = "#"
KeyOf(j) == TrimSpace(SubSeq(ConfLine(j), 1, IndexOf(ConfLine(j), "=") - 1))
ValueOf(j) ==
    TrimSpace(SubSeq(ConfLine(j), IndexOf(ConfLine(j), "=") + 1, Len(ConfLine(j))))
Malformed(j) ==
    ~Ignored(j) /\ (IndexOf(ConfLine(j), "=") = 0 \/ KeyOf(j) = <<>>)
ConfLineNos == 1..Len(confIn.lines)
Entries == {j \in ConfLineNos : ~Ignored(j) /\ ~Malformed(j)}

\* C19: LoadConfFile skips blank lines and lines that start with #, maps
\* every other line key=value to the entry key -> value (key and value
\* without the blanks around them, the last line of a key giving its value),
\* and fails on the first remaining line without "=" or with an empty key,
\* naming its 1-based line number and returning no map.
C19_LoadConfFile ==
    (confDone /\ confIn.exists) =>
        IF \E j \in ConfLineNos : Malformed(j)
        THEN /\ confRes.err
             /\ Malformed(confRes.line)
             /\ \A j \in 1..(confRes.line - 1) : ~Malformed(j)
             /\ confRes.m = EmptyMap
        ELSE /\ ~confRes.err
             /\ DOMAIN confRes.m = {KeyOf(j) : j \in Entries}
             /\ \A j \in Entries :
                   (\A h \in Entries : h > j => KeyOf(h) # KeyOf(j))
                       => confRes.m[KeyOf(j)] = ValueOf(j)
C19_Witness ==
    /\ confDone
    /\ confIn = File(<<<<"#", "c">>, <<"k", "=", "v">>, <<"k">>>>)
    /\ confRes.err /\ confRes.line = 3 /\ confRes.m = EmptyMap

(***************************************************************************)
(* Properties of DiscoverAllScenarios.                                     *)
(***************************************************************************)
Listable(dir) == dir.kind = "dir" /\ dir.readable
FolderNames == {<<"f">>, <<"g">>}
ScenarioNames == {<<"s">>, <<"s", "-", "t">>}
VariantNames == {<<"v">>, <<"w", "-", "x">>, <<"d">>, <<"t", "-", "v">>}
\* The triples (folder, scenario, variant): folder a subdirectory of the root,
\* scenario a subdirectory of folder that holds the template name, and the
\* overlay file of the variant in the scenario directory.
IsVariant(f, sc, v) ==
    /\ f \in DOMAIN fsRoot.entries
    /\ Listable(fsRoot.entries[f])
    /\ sc \in DOMAIN fsRoot.entries[f].entries
    /\ LET dir == fsRoot.entries[f].entries[sc]
       IN /\ Listable(dir)
          /\ TemplatePattern(f, sc) \in DOMAIN dir.entries
          /\ ConfName(f, sc, v) \in DOMAIN dir.entries
          /\ dir.entries[ConfName(f, sc, v)].kind = "file"
TriplesOver(variants) ==
    {ScenarioVariant(t[1], t[2], t[3]) :
        t \in {u \in FolderNames \X ScenarioNames \X variants :
                  IsVariant(u[1], u[2], u[3])}}
\* with a variant name that is a name, and with any string as variant name
Expected == TriplesOver(VariantNames)
ExpectedAnyName == TriplesOver(VariantNames \cup {<<>>})

\* C20 as stated: the triples returned are exactly those whose overlay file
\* {folder}-{scenario}-{variant}.conf exists, whatever string variant is.
C20_Original ==
    (discDone /\ ~discRes.err) => Range(discRes.list) = ExpectedAnyName

\* C20: DiscoverAllScenarios fails exactly when the scenarios directory cannot
\* be read; otherwise it returns, each once, exactly the triples (folder,
\* scenario, variant) with folder a subdirectory of the root, scenario a
\* subdirectory of folder holding {folder}-{scenario}-template.yaml, variant a
\* non-empty name and {folder}-{scenario}-{variant}.conf a file of the scenario
\* directory; a scenario without such a file, and a folder or scenario
\* directory that cannot be read, contribute nothing and raise no error.
C20_DiscoverAllScenarios ==
    discDone =>
        /\ discRes.err <=> ~Listable(fsRoot)
        /\ discRes.err => discRes.list = <<>>
        /\ ~discRes.err =>
              /\ Range(discRes.list) = Expected
              /\ Len(discRes.list) = Cardinality(Expected)
C20_Witness ==
    /\ discDone /\ ~discRes.err
    /\ <<"g">> \in DOMAIN fsRoot.entries /\ ~Listable(fsRoot.entries[<<"g">>])
    /\ fsRoot.entries[<<"g">>].kind = "dir"
    /\ Range(discRes.list) =
          {ScenarioVariant(<<"f">>, <<"s">>, <<"v">>),
           ScenarioVariant(<<"f">>, <<"s">>, <<"w", "-", "x">>),
           ScenarioVariant(<<"f">>, <<"s", "-", "t">>, <<"v">>)}

(***************************************************************************)
(* Properties of a scenario variant run.                                   *)
(***************************************************************************)
\* The steps that reach the cluster, and the registration of the cleanup.
ClusterOps ==
    {"GetClient", "CreateNamespace", "InstallConfig", "DeferCleanup", "Get", "Poll",
     "Delete", "DeleteNamespace"}
StepsOf(op) == {j \in 1..Len(slog) : slog[j].op = op}
Passed(op) == {j \in StepsOf(op) : slog[j].ok}
Before(j, done) == \E i \in done : i < j

\* C21: with DRY_RUN "true" or "1" the run performs no cluster operation at any
\* step and registers no cleanup, while template processing runs and, when it
\* succeeded, configuration loading runs.
C21_DryRunNoClusterOp ==
    env \in {"true", "1"} =>
        /\ \A j \in 1..Len(slog) : slog[j].op \notin ClusterOps
        /\ ~nsCreated /\ ~cleanupReg
        /\ spc = "end" =>
              /\ StepsOf("ProcessScenarioTemplate") # {}
              /\ Passed("ProcessScenarioTemplate") # {} => StepsOf("LoadConfig") # {}
C21_Witness ==
    /\ env = "1" /\ spc = "end" /\ ~sfailed
    /\ Passed("LoadConfig") # {}
    /\ Cardinality(Passed("Assert")) = ConfigSpecs

\* C22: the steps of one run are strictly ordered: template processing, config
\* loading, InstallConfig, the existence check, Verify, each at most once and
\* each only after the one before it succeeded; a readiness poll happens only
\* after InstallConfig returned successfully, and never after it failed.
C22_StepsOrdered ==
    /\ \A op \in {"ProcessScenarioTemplate", "LoadConfig", "InstallConfig"} :
          Cardinality(StepsOf(op)) <= 1
    /\ \A j \in StepsOf("LoadConfig") : Before(j, Passed("ProcessScenarioTemplate"))
    /\ \A j \in StepsOf("InstallConfig") : Before(j, Passed("LoadConfig"))
    /\ \A j \in StepsOf("Get") : Before(j, Passed("InstallConfig"))
    /\ \A j \in StepsOf("Poll") :
          /\ Before(j, Passed("InstallConfig"))
          /\ \E g \in Passed("Get") : g < j /\ Before(g, Passed("InstallConfig"))
    /\ StepsOf("InstallConfig") \ Passed("InstallConfig") # {} => StepsOf("Poll") = {}
C22_Witness ==
    /\ spc = "end" /\ ~sfailed /\ ~dryRun
    /\ Cardinality(StepsOf("Poll")) = 2
    /\ Passed("Poll") # {}

\* C28: every namespace the run created has its deletion registered as cleanup
\* once the run's steps are over.
C28_CleanupRegistered ==
    (nsCreated /\ spc \in {"cleanup", "end"}) => cleanupReg

\* The part of C28 that holds: when InstallConfig succeeded the cleanup is
\* registered, and it deletes the namespace unless a Delete fails.
C28_AfterInstall ==
    (nsCreated /\ spc = "end" /\ Passed("InstallConfig") # {}) =>
        /\ cleanupReg
        /\ (nsLive => \E j \in StepsOf("Delete") \cup StepsOf("DeleteNamespace") :
                         ~slog[j].ok)

(***************************************************************************)
(* Properties of GetClient.                                                *)
(***************************************************************************)
\* C23: under every interleaving of concurrent GetClient calls the function
\* that constructs the client runs at most once, and all calls that return a
\* client return the same one.
C23_ConstructedOnce ==
    /\ built <= 1
    /\ \A a \in rets, b \in rets :
          (a.client # NilClient /\ b.client # NilClient) => a.client = b.client
C23_Witness ==
    /\ \E a \in rets, b \in rets :
          a.g # b.g /\ a.client # NilClient /\ b.client = a.client /\ a.n = 1 /\ b.n = 1
    /\ built = 1

\* C27: every call of GetClient that returns a nil client returns a non-nil
\* error.
C27_NilClientHasError ==
    \A r \in rets : r.client = NilClient => r.err

\* The part of C27 that holds: the call that ran the initialization returns
\* an error when it returns a nil client, and no call returns both a client
\* and an error.
C27_InitializingCall ==
    /\ \A r \in rets : r.client # NilClient => ~r.err
    /\ \A r \in rets : r.err => r.client = NilClient

(***************************************************************************)
(* Properties of InstallConfig under concurrent writers.                   *)
(***************************************************************************)
\* A mutating call that met another actor's write: the cluster answered by
\* the API's rules, yet the call contradicts what the lookup before it saw.
Raced(n) ==
    /\ calls[n].op # "get"
    /\ calls[n].outcome = "error"
    /\ Faithful /\ nOther > 0

\* C24: InstallConfig never retries: a document gets at most one mutating
\* call in a run, and a failed Create or Update (another actor created the
\* object after the lookup, or changed its version) is the last cluster call
\* of the run, which returns the error.
C24_NoRetry ==
    \A n \in CallIdx : calls[n].op # "get" =>
        /\ Muts(calls[n].run, calls[n].doc) = {n}
        /\ calls[n].outcome = "error" =>
              /\ \A h \in CallIdx : h > n => calls[h].run > calls[n].run
              /\ calls[n].run = run => ipc = "done" /\ iret = "err"
C24_Witness ==
    /\ \E n \in CallIdx : Raced(n) /\ calls[n].op = "create" /\ calls[n].run = 1
    /\ \E n \in CallIdx : calls[n].op = "update" /\ calls[n].run = 2
    /\ run = 2 /\ ipc = "done"

(***************************************************************************)
(* Properties of ProcessTemplate: malformed documents.                     *)
(***************************************************************************)
\* The documents of the template text of the latest call that do not decode.
MalformedDocs(r) ==
    LET documents == splitYAMLDocuments(r.text)
    IN {j \in 1..Len(documents) :
          ~AllBlank(documents[j]) /\ Unmarshal(documents[j]).err}

\* C25: when a document of the template is malformed YAML, ProcessTemplate
\* fails with an error that names the 1-based index of the first such
\* document and leaves the output file exactly as it was before the call,
\* also when earlier documents were processed.
C25_ParseErrorWritesNothing ==
    [][(ProcessTemplateCall /\ tplRes'.err \in {"nil", "parse"}) =>
          /\ tplRes'.err = "parse" <=> MalformedDocs(tplRes') # {}
          /\ tplRes'.err = "parse" =>
                /\ tplRes'.errDoc \in MalformedDocs(tplRes')
                /\ \A j \in MalformedDocs(tplRes') : tplRes'.errDoc <= j
                /\ outFile' = outFile]_vars
C25_Witness ==
    /\ tplRes.err = "parse" /\ tplRes.errDoc = 2
    /\ outFile = File(<<<<"old">>, <<>>>>)
    /\ tplN = 2

(***************************************************************************)
(* Properties of splitYAMLDocuments.                                       *)
(***************************************************************************)
\* The segments of the input: the maximal runs of lines that are not
\* separators, as (first, last); and those with a line that is not blank.
SegmentsOf(lines) ==
    {ab \in (1..Len(lines)) \X (1..Len(lines)) :
        /\ ab[1] <= ab[2]
        /\ \A j \in ab[1]..ab[2] : ~IsSeparator(lines[j])
        /\ (ab[1] = 1 \/ IsSeparator(lines[ab[1] - 1]))
        /\ (ab[2] = Len(lines) \/ IsSeparator(lines[ab[2] + 1]))}
NonBlankSegments(lines) ==
    {ab \in SegmentsOf(lines) : ~AllBlank(SubSeq(lines, ab[1], ab[2]))}

\* C26 (first half): no document returned holds a line that is `---` after
\* trimming.
C26_NoSeparatorLine ==
    splitDone =>
        \A d \in 1..Len(splitOut) : \A j \in 1..Len(splitOut[d]) :
            ~IsSeparator(splitOut[d][j])

\* The part of C26 that holds: when the input has a segment that is not
\* blank, the documents returned are exactly its non-blank segments, whole
\* and in input order, so none holds a separator and every line of such a
\* segment is in exactly one document; otherwise the input itself is returned
\* as the one document.
C26_NonBlankSegments ==
    splitDone =>
        LET segs == NonBlankSegments(splitIn)
        IN IF segs = {} THEN splitOut = <<splitIn>>
           ELSE /\ Len(splitOut) = Cardinality(segs)
                /\ \A ab \in segs :
                      splitOut[1 + Cardinality({s \in segs : s[1] < ab[1]})]
                          = SubSeq(splitIn, ab[1], ab[2])

(***************************************************************************)
(* Properties of IsReady: the order of the conditions.                     *)
(***************************************************************************)
Reorderings(n) ==
    {f \in [1..n -> 1..n] : \A a \in 1..n, b \in 1..n : f[a] = f[b] => a = b}
Permuted(o, f) == [o EXCEPT !.entries = [j \in 1..Len(o.entries) |-> o.entries[f[j]]]]

\* C29: permuting status.conditions leaves IsReady's result unchanged, for
\* every snapshot, several entries of type "Ready" included.
C29_OrderIndependent ==
    rdyDone =>
        \A f \in Reorderings(Len(snap.entries)) : IsReady(Permuted(snap, f)) = rdyRes

\* The part of C29 that holds: with at most one entry of type "Ready" the
\* result does not depend on the order of the conditions.
C29_OneReadyEntry ==
    (rdyDone /\ Cardinality(ReadyEntries(snap)) <= 1) =>
        \A f \in Reorderings(Len(snap.entries)) : IsReady(Permuted(snap, f)) = rdyRes

(***************************************************************************)
(* Properties of UpdateConfig: what a call leaves alone.                   *)
(***************************************************************************)
\* The path a pathValue names: the caller's segments, or the one empty
\* segment of a pathValue that starts with "=".
NamedPath == IF cfgIn = PathValue(cfgPath, cfgVal) THEN cfgPath ELSE <<<<>>>>

\* Along the path, each map keeps every key but the segment with its value,
\* and gains at most the segment; below a segment that held a mapping the
\* same is true of that mapping.
RECURSIVE OnlyPathChanged(_, _, _)
OnlyPathChanged(old, new, path) ==
    LET key == Head(path)
    IN /\ DOMAIN new = DOMAIN old \cup {key}
       /\ \A k \in DOMAIN old \ {key} : new[k] = old[k]
       /\ Len(path) > 1 =>
             /\ new[key].t = "map"
             /\ OnlyPathChanged(IF key \in DOMAIN old /\ old[key].t = "map"
                                THEN old[key].m ELSE EmptyMap,
                                new[key].m, Tail(path))

====
